---- MODULE Spec2Model ----
(***************************************************************************)
(* A model of ak-data: the attribute interpolation of game_data.rs, the    *)
(* PromotionAndLevel order, and the text templating engine of format.rs.   *)
(*                                                                         *)
(* Numbers of type f32 are modelled bit-exactly (24-bit significand,       *)
(* round to nearest, ties to even) for finite values of magnitude below    *)
(* 2^30 and for NaN, which is all the interpolation can produce from       *)
(* inputs of that size.  Text is a sequence of one-character strings.      *)
(***************************************************************************)
EXTENDS Integers, Sequences, FiniteSets, TLC

(***************************************************************************)
(* IEEE-754 binary32 arithmetic.                                           *)
(* A finite value is (-1)^neg * m * 2^e with m = 0 (and e = 0) or          *)
(* 2^23 <= m < 2^24.                                                       *)
(***************************************************************************)

F32NaN == [kind |-> "nan", neg |-> FALSE, m |-> 0, e |-> 0]

F32Inf(neg) == [kind |-> "inf", neg |-> neg, m |-> 0, e |-> 0]

F32Zero(neg) == [kind |-> "fin", neg |-> neg, m |-> 0, e |-> 0]

\* The powers of two, tabulated.
Pow2 == [k \in 0..30 |-> 2^k]

\* The number of binary digits of n, lo <= digits <= hi, by bisection.
RECURSIVE BitLenIn(_, _, _)
BitLenIn(n, lo, hi) ==
  IF lo = hi THEN lo
  ELSE LET mid == (lo + hi) \div 2
       IN IF n < Pow2[mid] THEN BitLenIn(n, lo, mid) ELSE BitLenIn(n, mid + 1, hi)

\* The number of binary digits of n, 0 <= n < 2^30.
BitLen(n) == BitLenIn(n, 0, 30)

\* The binary32 nearest to (n + f) * 2^e, where 0 <= n < 2^30 and f is a
\* fraction in (0,1) when sticky and 0 otherwise; ties go to the even
\* significand.  With sticky, n carries at least 25 binary digits.
F32Round(neg, n, e, sticky) ==
  IF n = 0 THEN F32Zero(neg)
  ELSE LET bits == BitLen(n) IN
    IF bits <= 24
    THEN [kind |-> "fin", neg |-> neg, m |-> n * Pow2[24 - bits], e |-> e - (24 - bits)]
    ELSE LET k    == bits - 24
             q    == n \div Pow2[k]
             r    == n % Pow2[k]
             half == Pow2[k-1]
             up   == \/ r > half
                     \/ r = half /\ sticky
                     \/ r = half /\ ~sticky /\ q % 2 = 1
             q2   == IF up THEN q + 1 ELSE q
         IN IF q2 = Pow2[24]
            THEN [kind |-> "fin", neg |-> neg, m |-> Pow2[23], e |-> e + k + 1]
            ELSE [kind |-> "fin", neg |-> neg, m |-> q2, e |-> e + k]

\* `n as f32` for an unsigned integer n.
F32FromU32(n) == F32Round(FALSE, n, 0, FALSE)

F32Neg(x) == IF x.kind = "nan" THEN x ELSE [x EXCEPT !.neg = ~x.neg]

\* |x| >= |y| for finite x, y.
F32MagGeq(x, y) ==
  IF y.m = 0 THEN TRUE
  ELSE IF x.m = 0 THEN FALSE
  ELSE x.e > y.e \/ (x.e = y.e /\ x.m >= y.m)

\* x + y: the significands are aligned with three guard digits, the digits of
\* the smaller operand shifted out are kept as a sticky flag.
F32Add(x, y) ==
  IF x.kind = "nan" \/ y.kind = "nan" THEN F32NaN
  ELSE IF x.kind = "inf" /\ y.kind = "inf"
    THEN (IF x.neg = y.neg THEN x ELSE F32NaN)
  ELSE IF x.kind = "inf" THEN x
  ELSE IF y.kind = "inf" THEN y
  ELSE IF x.m = 0 /\ y.m = 0 THEN F32Zero(x.neg /\ y.neg)
  ELSE IF x.m = 0 THEN y
  ELSE IF y.m = 0 THEN x
  ELSE LET hi == IF F32MagGeq(x, y) THEN x ELSE y
           lo == IF F32MagGeq(x, y) THEN y ELSE x
           d  == hi.e - lo.e
           H  == hi.m * 8
           L  == IF d >= 27 THEN 0 ELSE (lo.m * 8) \div Pow2[d]
           st == IF d >= 27 THEN TRUE ELSE (lo.m * 8) % Pow2[d] # 0
       IN IF hi.neg = lo.neg
          THEN F32Round(hi.neg, H + L, hi.e - 3, st)
          ELSE IF H = L /\ ~st THEN F32Zero(FALSE)
          ELSE F32Round(hi.neg, H - L - (IF st THEN 1 ELSE 0), hi.e - 3, st)

F32Sub(x, y) == F32Add(x, F32Neg(y))

\* x * y: the 48-digit product of the significands is formed in 12-digit
\* limbs and cut to 26 digits and a sticky flag before rounding.
F32Mul(x, y) ==
  IF x.kind = "nan" \/ y.kind = "nan" THEN F32NaN
  ELSE IF x.kind = "inf" \/ y.kind = "inf"
    THEN (IF (x.kind = "fin" /\ x.m = 0) \/ (y.kind = "fin" /\ y.m = 0)
          THEN F32NaN ELSE F32Inf(x.neg # y.neg))
  ELSE IF x.m = 0 \/ y.m = 0 THEN F32Zero(x.neg # y.neg)
  ELSE LET h1  == x.m \div 4096
           l1  == x.m % 4096
           h2  == y.m \div 4096
           l2  == y.m % 4096
           mid == h1 * l2 + l1 * h2
           low == (mid % 4096) * 4096 + l1 * l2
           lo  == low % Pow2[24]
           hi  == h1 * h2 + mid \div 4096 + low \div Pow2[24]
       IN F32Round(x.neg # y.neg, hi * 4 + lo \div Pow2[22], x.e + y.e + 22, lo % Pow2[22] # 0)

\* Long division: n more quotient digits of rem / den appended to acc.
RECURSIVE DivBits(_, _, _, _)
DivBits(rem, den, n, acc) ==
  IF n = 0 THEN <<acc, rem>>
  ELSE IF 2 * rem >= den
       THEN DivBits(2 * rem - den, den, n - 1, 2 * acc + 1)
       ELSE DivBits(2 * rem, den, n - 1, 2 * acc)

\* x / y: 0/0 is NaN.
F32Div(x, y) ==
  IF x.kind = "nan" \/ y.kind = "nan" THEN F32NaN
  ELSE IF x.kind = "inf" THEN (IF y.kind = "inf" THEN F32NaN ELSE F32Inf(x.neg # y.neg))
  ELSE IF y.kind = "inf" THEN F32Zero(x.neg # y.neg)
  ELSE IF y.m = 0 THEN (IF x.m = 0 THEN F32NaN ELSE F32Inf(x.neg # y.neg))
  ELSE IF x.m = 0 THEN F32Zero(x.neg # y.neg)
  ELSE LET qr == DivBits(x.m % y.m, y.m, 26, x.m \div y.m)
       IN F32Round(x.neg # y.neg, qr[1], x.e - y.e - 26, qr[2] # 0)

\* f32::round: to the nearest integer, halves away from zero.
F32RoundToInt(x) ==
  IF x.kind # "fin" \/ x.e >= 0 THEN x
  ELSE LET k == 0 - x.e IN
    IF k >= 25 THEN F32Zero(x.neg)
    ELSE LET q == x.m \div Pow2[k]
             r == x.m % Pow2[k]
             n == IF 2 * r >= Pow2[k] THEN q + 1 ELSE q
         IN F32Round(x.neg, n, 0, FALSE)

\* `x as u32` for an integer-valued x below 2^30: NaN and negative values
\* give 0.
F32AsU32(x) ==
  IF x.kind = "nan" THEN 0
  ELSE IF x.neg THEN 0
  ELSE IF x.m = 0 THEN 0
  ELSE IF x.e >= 0 THEN x.m * Pow2[x.e]
  ELSE x.m \div Pow2[0 - x.e]

(***************************************************************************)
(* Option<T>: None is the empty sequence, Some(x) the sequence <<x>>.      *)
(***************************************************************************)

None == <<>>

Some(x) == <<x>>

IsSome(o) == o # <<>>

Unwrap(o) == o[1]

(***************************************************************************)
(* game_data.rs: Promotion and PromotionAndLevel.                          *)
(***************************************************************************)

PromotionNone == 0

PromotionElite1 == 1

PromotionElite2 == 2

Promotion == {PromotionNone, PromotionElite1, PromotionElite2}

\* Ord::cmp of two integers (Promotion is ordered by discriminant).
IntCmp(x, y) == IF x < y THEN "Less" ELSE IF x > y THEN "Greater" ELSE "Equal"

\* Ordering::then
OrderingThen(first, second) == IF first = "Equal" THEN second ELSE first

\* A comparison that looks at the level before the promotion.
PromotionAndLevelCmpLevelFirst(self, other) ==
  OrderingThen(IntCmp(self.level, other.level), IntCmp(self.promotion, other.promotion))

PromotionAndLevelCmp(self, other) ==
  OrderingThen(IntCmp(self.promotion, other.promotion), IntCmp(self.level, other.level))

\* a < b, a <= b as PartialOrd derives them from partial_cmp
PromotionAndLevelLt(a, b) == PromotionAndLevelCmp(a, b) = "Less"

PromotionAndLevelLe(a, b) == PromotionAndLevelCmp(a, b) \in {"Less", "Equal"}

with_level(promotion, level) == [promotion |-> promotion, level |-> level]

(***************************************************************************)
(* format/character_table.rs: raw key frames and phases.                   *)
(***************************************************************************)

into_operator_promotion_attributes(keyframe) ==
  [level                |-> keyframe.level,
   max_hp               |-> keyframe.data.max_hp,
   atk                  |-> keyframe.data.atk,
   def                  |-> keyframe.data.def,
   magic_resistance     |-> keyframe.data.magic_resistance,
   deployment_cost      |-> keyframe.data.cost,
   block_count          |-> keyframe.data.block_count,
   move_speed           |-> keyframe.data.move_speed,
   attack_speed         |-> keyframe.data.attack_speed,
   base_attack_time     |-> keyframe.data.base_attack_time,
   redeploy_time        |-> keyframe.data.respawn_time,
   hp_recovery_per_sec  |-> keyframe.data.hp_recovery_per_sec,
   sp_recovery_per_sec  |-> keyframe.data.sp_recovery_per_sec,
   max_deploy_count     |-> keyframe.data.max_deploy_count,
   max_deck_stack_count |-> keyframe.data.max_deck_stack_count,
   taunt_level          |-> keyframe.data.taunt_level,
   is_stun_immune       |-> keyframe.data.is_stun_immune,
   is_silence_immune    |-> keyframe.data.is_silence_immune,
   is_sleep_immune      |-> keyframe.data.is_sleep_immune,
   is_frozen_immune     |-> keyframe.data.is_frozen_immune]

into_operator_trust_attributes(keyframe) ==
  [max_hp |-> keyframe.data.max_hp,
   atk    |-> keyframe.data.atk,
   def    |-> keyframe.data.def]

into_operator_promotion(phase) ==
  [attack_range_id |-> phase.range_id,
   min_attributes  |-> into_operator_promotion_attributes(phase.attributes_key_frames[1]),
   max_attributes  |-> into_operator_promotion_attributes(phase.attributes_key_frames[2]),
   max_level       |-> phase.max_level,
   upgrade_cost    |-> phase.upgrade_cost]

\* A ladder that starts from the last phase instead of the first.
into_operator_promotions_from_last(phases) ==
  IF Len(phases) = 0 THEN None
  ELSE Some([none   |-> into_operator_promotion(phases[Len(phases)]),
             elite1 |-> IF Len(phases) >= 2 THEN Some(into_operator_promotion(phases[2])) ELSE None,
             elite2 |-> IF Len(phases) >= 3 THEN Some(into_operator_promotion(phases[3])) ELSE None])

\* CharacterTableEntry::into_operator, the promotion ladder: the first phase
\* is required, the second and third are taken when present.
into_operator_promotions(phases) ==
  IF Len(phases) = 0 THEN None
  ELSE Some([none   |-> into_operator_promotion(phases[1]),
             elite1 |-> IF Len(phases) >= 2 THEN Some(into_operator_promotion(phases[2])) ELSE None,
             elite2 |-> IF Len(phases) >= 3 THEN Some(into_operator_promotion(phases[3])) ELSE None])

\* CharacterTableEntry::into_operator, the trust bonus: the second of the two
\* favor key frames, or the default.
TrustAttributesDefault == [max_hp |-> 0, atk |-> 0, def |-> 0]

into_trust_bonus(favor_key_frames) ==
  IF IsSome(favor_key_frames)
  THEN into_operator_trust_attributes(Unwrap(favor_key_frames)[2])
  ELSE TrustAttributesDefault

(***************************************************************************)
(* game_data.rs: attribute interpolation.                                  *)
(***************************************************************************)

\* u32::clamp(min, max); it panics when min > max.
Clamp(v, min, max) == IF v < min THEN min ELSE IF v > max THEN max ELSE v

lerp_f32(min, max, t) == F32Add(min, F32Mul(F32Sub(max, min), t))

lerp_u32(min, max, t) ==
  F32AsU32(F32RoundToInt(lerp_f32(F32FromU32(min), F32FromU32(max), t)))

level_t(self, level) ==
  LET min == self.min_attributes.level
      max == self.max_attributes.level
      lv  == F32FromU32(Clamp(level, min, max))
  IN F32Div(F32Sub(lv, F32FromU32(min)), F32Sub(F32FromU32(max), F32FromU32(min)))

\* f is the name of the field the closure reads.
lerp_attribute_u32(self, level, f) ==
  lerp_u32(self.min_attributes[f], self.max_attributes[f], level_t(self, level))

\* An interpolation that copies the remaining fields from the max key frame.
get_level_attributes_from_max(self, level) ==
  [self.max_attributes EXCEPT
     !.level  = level,
     !.max_hp = lerp_attribute_u32(self, level, "max_hp"),
     !.atk    = lerp_attribute_u32(self, level, "atk"),
     !.def    = lerp_attribute_u32(self, level, "def")]

get_level_attributes(self, level) ==
  [self.min_attributes EXCEPT
     !.level  = level,
     !.max_hp = lerp_attribute_u32(self, level, "max_hp"),
     !.atk    = lerp_attribute_u32(self, level, "atk"),
     !.def    = lerp_attribute_u32(self, level, "def")]

\* OperatorPromotions::get
promotions_get(self, promotion) ==
  IF promotion = PromotionNone THEN Some(self.none)
  ELSE IF promotion = PromotionElite1 THEN self.elite1
  ELSE self.elite2

\* OperatorPromotions::get_attributes
promotions_get_attributes(self, promotion_and_level) ==
  LET p == promotions_get(self, promotion_and_level.promotion)
  IN IF IsSome(p) THEN Some(get_level_attributes(Unwrap(p), promotion_and_level.level)) ELSE None

get_trust_level_attributes(self, trust) ==
  LET t == F32Div(F32FromU32(IF trust < 200 THEN trust ELSE 200), F32FromU32(200))
  IN [max_hp |-> lerp_u32(0, self.max_hp, t),
      atk    |-> lerp_u32(0, self.atk, t),
      def    |-> lerp_u32(0, self.def, t)]

\* impl Add<OperatorTrustAttributes> for OperatorPromotionAttributes
add_trust_attributes(self, trust_attributes) ==
  [self EXCEPT
     !.max_hp = self.max_hp + trust_attributes.max_hp,
     !.atk    = self.atk + trust_attributes.atk,
     !.def    = self.def + trust_attributes.def]

\* Operator::get_attributes
operator_get_attributes(self, promotion_and_level, trust) ==
  LET a == promotions_get_attributes(self.promotions, promotion_and_level)
  IN IF IsSome(a)
     THEN Some(add_trust_attributes(Unwrap(a), get_trust_level_attributes(self.trust_bonus, trust)))
     ELSE None

(***************************************************************************)
(* State.  The interpolation and the template engine are pure functions of *)
(* an Operator or of a text and its blackboard: a behaviour starts with    *)
(* the object and a call on it, and the action of that call returns.       *)
(***************************************************************************)

VARIABLES
  operator,    \* a resolved Operator: its promotions and its trust bonus
  text,        \* the description text handed to the template engine
  blackboard,  \* the blackboard of that text: lower-case key -> f32
  assertions,  \* whether the crate is built with feature "assertions"
  call,        \* the operation called, with its arguments
  ret,         \* None until the call returns, then Some(what it returned)
  data_files,  \* the raw tables of into_game_data, as far as not yet consumed
  game_data    \* the operators into_game_data has resolved so far

vars == <<operator, text, blackboard, assertions, call, ret, data_files, game_data>>

Pending == None

Returned(op) == call.op = op /\ IsSome(ret)

(***************************************************************************)
(* Raw records the character table can hold, within the bounds.            *)
(***************************************************************************)

\* The data of a key frame; v varies every field that is not interpolated.
KeyFrameData(hp, atk, def, v) ==
  [max_hp               |-> hp,
   atk                  |-> atk,
   def                  |-> def,
   magic_resistance     |-> 10 * v,
   cost                 |-> 8 + v,
   block_count          |-> 1 + v,
   move_speed           |-> 1 + v,
   attack_speed         |-> 100 + v,
   base_attack_time     |-> 1 + 2 * v,
   respawn_time         |-> 70 + 10 * v,
   hp_recovery_per_sec  |-> v,
   sp_recovery_per_sec  |-> 1 + v,
   max_deploy_count     |-> 1 + v,
   max_deck_stack_count |-> 2 + v,
   taunt_level          |-> 0 - v,
   is_stun_immune       |-> v % 2 = 1,
   is_silence_immune    |-> v % 2 = 0,
   is_sleep_immune      |-> v % 2 = 1,
   is_frozen_immune     |-> v % 2 = 0]

KeyFrame(level, data) == [level |-> level, data |-> data]

\* Phases whose key frames sit at levels lo <= hi, with the statistics and
\* the variant of each key frame drawn from the given sets.
PhaseSet(minLevels, maxLevel, hps, atks, defs, variants) ==
  { p \in
    { [range_id              |-> Some("1-1"),
       max_level             |-> hi,
       attributes_key_frames |-> << KeyFrame(lo, KeyFrameData(h1, a1, d1, v1)),
                                    KeyFrame(hi, KeyFrameData(h2, a2, d2, v2)) >>,
       upgrade_cost          |-> << >>] :
        lo \in minLevels, hi \in 1..maxLevel,
        h1 \in hps, h2 \in hps, a1 \in atks, a2 \in atks, d1 \in defs, d2 \in defs,
        v1 \in variants, v2 \in variants } :
    p.attributes_key_frames[1].level <= p.attributes_key_frames[2].level }

\* The Operator that into_operator builds from these phases and favor key
\* frames (the fields the attribute calculations read).
OperatorOf(phases, favor_key_frames) ==
  [promotions  |-> Unwrap(into_operator_promotions(phases)),
   trust_bonus |-> into_trust_bonus(favor_key_frames)]

IdleOperator ==
  OperatorOf(<< CHOOSE p \in PhaseSet({1}, 1, {0}, {0}, {0}, {0}) : TRUE >>, None)

IdleText == << >>

IdleBlackboard == << >>

\* No tables are loaded and nothing is assembled.
IdleDataFiles == << >>

IdleGameData == << >>

(***************************************************************************)
(* Calls on an Operator.                                                   *)
(***************************************************************************)

CallGetLevelAttributes(p, level) ==
  [op |-> "get_level_attributes", promotion |-> p, level |-> level, trust |-> 0]

CallGetAttributes(p, level, trust) ==
  [op |-> "get_attributes", promotion |-> p, level |-> level, trust |-> trust]

CallGetTrustLevelAttributes(trust) ==
  [op |-> "get_trust_level_attributes", promotion |-> PromotionNone, level |-> 0, trust |-> trust]

\* OperatorPromotion::get_level_attributes on the promotion call.promotion of
\* the operator (as the tests reach it: operator_promotions.get(p).unwrap()).
GetLevelAttributes ==
  /\ call.op = "get_level_attributes"
  /\ ret = Pending
  /\ IsSome(promotions_get(operator.promotions, call.promotion))
  /\ ret' = Some(get_level_attributes(Unwrap(promotions_get(operator.promotions, call.promotion)),
                                      call.level))
  /\ UNCHANGED <<operator, text, blackboard, assertions, call, data_files, game_data>>

\* Operator::get_attributes
GetAttributes ==
  /\ call.op = "get_attributes"
  /\ ret = Pending
  /\ ret' = Some(operator_get_attributes(operator, with_level(call.promotion, call.level), call.trust))
  /\ UNCHANGED <<operator, text, blackboard, assertions, call, data_files, game_data>>

\* OperatorTrustAttributes::get_trust_level_attributes on the trust bonus.
GetTrustLevelAttributes ==
  /\ call.op = "get_trust_level_attributes"
  /\ ret = Pending
  /\ ret' = Some(get_trust_level_attributes(operator.trust_bonus, call.trust))
  /\ UNCHANGED <<operator, text, blackboard, assertions, call, data_files, game_data>>

(***************************************************************************)
(* SpecAttributes: one promotion with key frames up to MaxLevel, queried   *)
(* at every level from 0 to one past MaxLevel.                             *)
(***************************************************************************)

MaxLevel == 13

MaxMinLevel == 2

HpStep == 27

MaxHpSteps == 2

MaxAtk == 1

MaxDef == 1

HpValues == { HpStep * i : i \in 0..MaxHpSteps }

AttributePhases ==
  PhaseSet(1..MaxMinLevel, MaxLevel, HpValues, 0..MaxAtk, 0..MaxDef, {0})

InitAttributes ==
  /\ operator \in { OperatorOf(<<p>>, None) : p \in AttributePhases }
  /\ text = IdleText
  /\ blackboard = IdleBlackboard
  /\ assertions = FALSE
  /\ call \in { CallGetLevelAttributes(PromotionNone, level) : level \in 0..(MaxLevel + 1) }
  /\ ret = Pending
  /\ data_files = IdleDataFiles
  /\ game_data = IdleGameData

NextAttributes == GetLevelAttributes

SpecAttributes == InitAttributes /\ [][NextAttributes]_vars

(***************************************************************************)
(* Claims about the interpolation of one promotion (SpecAttributes).       *)
(***************************************************************************)

InterpolatedFields == {"max_hp", "atk", "def"}

\* The promotion a get_level_attributes call is made on.
CalledPromotion == Unwrap(promotions_get(operator.promotions, call.promotion))

\* round(min + (max - min) * (lv - lo) / (hi - lo)) in exact arithmetic, for
\* lo < hi and lo <= lv <= hi, halves rounded up (the value is never negative).
ExactLerp(min, max, lo, hi, lv) ==
  (2 * (min * (hi - lo) + (max - min) * (lv - lo)) + (hi - lo)) \div (2 * (hi - lo))

\* C2: get_level_attributes(level) returns, for each of max_hp, atk and def,
\* round(min + (max - min) * t) with t = (clamp(level, min_level, max_level)
\* - min_level) / (max_level - min_level), for every level and every pair of
\* key frames with min_level < max_level.
C2_ExactInterpolation ==
  (Returned("get_level_attributes")
     /\ CalledPromotion.min_attributes.level < CalledPromotion.max_attributes.level)
  => \A f \in InterpolatedFields :
       Unwrap(ret)[f] =
         ExactLerp(CalledPromotion.min_attributes[f], CalledPromotion.max_attributes[f],
                   CalledPromotion.min_attributes.level, CalledPromotion.max_attributes.level,
                   Clamp(call.level, CalledPromotion.min_attributes.level,
                         CalledPromotion.max_attributes.level))

\* C4: for key frame levels min_level <= max_level (min_level = max_level
\* included), a requested level <= min_level yields the min key frame's
\* max_hp, atk and def, and a requested level >= max_level yields the max
\* key frame's.
C4_LevelClamping ==
  (Returned("get_level_attributes")
     /\ CalledPromotion.min_attributes.level <= CalledPromotion.max_attributes.level)
  => /\ call.level <= CalledPromotion.min_attributes.level
          => \A f \in InterpolatedFields : Unwrap(ret)[f] = CalledPromotion.min_attributes[f]
     /\ call.level >= CalledPromotion.max_attributes.level
          => \A f \in InterpolatedFields : Unwrap(ret)[f] = CalledPromotion.max_attributes[f]

\* What does hold of the clamping: the same, for min_level < max_level.
ClampingOfProperRange ==
  (Returned("get_level_attributes")
     /\ CalledPromotion.min_attributes.level < CalledPromotion.max_attributes.level)
  => /\ call.level <= CalledPromotion.min_attributes.level
          => \A f \in InterpolatedFields : Unwrap(ret)[f] = CalledPromotion.min_attributes[f]
     /\ call.level >= CalledPromotion.max_attributes.level
          => \A f \in InterpolatedFields : Unwrap(ret)[f] = CalledPromotion.max_attributes[f]

\* What does hold of the interpolation: the result is within one half of the
\* exact value, so it is the exact rounding except at some exact halves.
InterpolationWithinHalf ==
  (Returned("get_level_attributes")
     /\ CalledPromotion.min_attributes.level < CalledPromotion.max_attributes.level)
  => \A f \in InterpolatedFields :
       LET lo  == CalledPromotion.min_attributes.level
           hi  == CalledPromotion.max_attributes.level
           lv  == Clamp(call.level, lo, hi)
           num == CalledPromotion.min_attributes[f] * (hi - lo)
                    + (CalledPromotion.max_attributes[f] - CalledPromotion.min_attributes[f]) * (lv - lo)
           d   == 2 * (Unwrap(ret)[f] * (hi - lo) - num)
       IN d <= hi - lo /\ 0 - d <= hi - lo

(***************************************************************************)
(* SpecFrame: one promotion whose two key frames differ in the fields that *)
(* are not interpolated, queried below, within and above its levels.       *)
(***************************************************************************)

FrameMaxLevel == 3

FrameMaxStat == 1

MaxVariant == 1

FramePhases ==
  PhaseSet(1..FrameMaxLevel, FrameMaxLevel, 0..FrameMaxStat, 0..FrameMaxStat, {0}, 0..MaxVariant)

InitFrame ==
  /\ operator \in { OperatorOf(<<p>>, None) : p \in FramePhases }
  /\ text = IdleText
  /\ blackboard = IdleBlackboard
  /\ assertions = FALSE
  /\ call \in { CallGetLevelAttributes(PromotionNone, level) : level \in 0..(FrameMaxLevel + 1) }
  /\ ret = Pending
  /\ data_files = IdleDataFiles
  /\ game_data = IdleGameData

NextFrame == GetLevelAttributes

SpecFrame == InitFrame /\ [][NextFrame]_vars

CopiedFields ==
  {"magic_resistance", "deployment_cost", "block_count", "move_speed", "attack_speed",
   "base_attack_time", "redeploy_time", "hp_recovery_per_sec", "sp_recovery_per_sec",
   "max_deploy_count", "max_deck_stack_count", "taunt_level", "is_stun_immune",
   "is_silence_immune", "is_sleep_immune", "is_frozen_immune"}

\* C5: get_level_attributes changes only max_hp, atk and def: every other
\* field of the result is the min key frame's, for every requested level,
\* and the result's level is the requested level as given, not clamped.
C5_OnlyStatsChange ==
  Returned("get_level_attributes")
  => /\ \A f \in CopiedFields : Unwrap(ret)[f] = CalledPromotion.min_attributes[f]
     /\ Unwrap(ret).level = call.level
     /\ DOMAIN Unwrap(ret) = CopiedFields \cup InterpolatedFields \cup {"level"}

\* A call above the key frames' levels, on key frames that differ in every
\* copied field and in max_hp, has returned.
C5_Witness ==
  /\ Returned("get_level_attributes")
  /\ call.level > CalledPromotion.max_attributes.level
  /\ \A f \in CopiedFields : CalledPromotion.min_attributes[f] # CalledPromotion.max_attributes[f]
  /\ CalledPromotion.min_attributes.max_hp # CalledPromotion.max_attributes.max_hp
  /\ Unwrap(ret).max_hp = CalledPromotion.max_attributes.max_hp

(***************************************************************************)
(* SpecTiers: an operator of one to three promotions, queried at each.     *)
(***************************************************************************)

MaxPhases == 3

TierMaxLevel == 2

TierMaxStat == 1

TierPhases == PhaseSet({1}, TierMaxLevel, 0..TierMaxStat, {1}, {2}, {0})

InitTiers ==
  /\ operator \in { OperatorOf(phases, None) :
                      phases \in UNION { [1..n -> TierPhases] : n \in 1..MaxPhases } }
  /\ text = IdleText
  /\ blackboard = IdleBlackboard
  /\ assertions = FALSE
  /\ call \in { CallGetLevelAttributes(p, level) : p \in Promotion, level \in 0..(TierMaxLevel + 1) }
  /\ ret = Pending
  /\ data_files = IdleDataFiles
  /\ game_data = IdleGameData

NextTiers == GetLevelAttributes

SpecTiers == InitTiers /\ [][NextTiers]_vars

Stats(attributes) == [f \in InterpolatedFields |-> attributes[f]]

\* C3: continuity at tier boundaries: for every tier k whose next tier is
\* present, get_level_attributes of tier k at its max level equals
\* get_level_attributes of tier k+1 at its min level on max_hp, atk and def.
C3_Continuity ==
  (/\ Returned("get_level_attributes")
   /\ call.promotion + 1 \in Promotion
   /\ IsSome(promotions_get(operator.promotions, call.promotion + 1))
   /\ call.level = CalledPromotion.max_level)
  => LET next == Unwrap(promotions_get(operator.promotions, call.promotion + 1))
     IN Stats(Unwrap(ret)) = Stats(get_level_attributes(next, next.min_attributes.level))

\* The same restricted to operators whose raw key frames agree at every
\* boundary: the max key frame of tier k carries the statistics of the min
\* key frame of tier k+1.
ContinuityOfAgreeingKeyFrames ==
  (/\ Returned("get_level_attributes")
   /\ call.promotion + 1 \in Promotion
   /\ IsSome(promotions_get(operator.promotions, call.promotion + 1))
   /\ call.level = CalledPromotion.max_level
   /\ Stats(CalledPromotion.max_attributes)
        = Stats(Unwrap(promotions_get(operator.promotions, call.promotion + 1)).min_attributes))
  => LET next == Unwrap(promotions_get(operator.promotions, call.promotion + 1))
     IN Stats(Unwrap(ret)) = Stats(get_level_attributes(next, next.min_attributes.level))

\* And restricted further to tiers whose key frames sit at two levels.
ContinuityOfProperTiers ==
  (/\ Returned("get_level_attributes")
   /\ call.promotion + 1 \in Promotion
   /\ IsSome(promotions_get(operator.promotions, call.promotion + 1))
   /\ call.level = CalledPromotion.max_level
   /\ Stats(CalledPromotion.max_attributes)
        = Stats(Unwrap(promotions_get(operator.promotions, call.promotion + 1)).min_attributes)
   /\ CalledPromotion.min_attributes.level < CalledPromotion.max_attributes.level
   /\ LET next == Unwrap(promotions_get(operator.promotions, call.promotion + 1))
      IN next.min_attributes.level < next.max_attributes.level)
  => LET next == Unwrap(promotions_get(operator.promotions, call.promotion + 1))
     IN Stats(Unwrap(ret)) = Stats(get_level_attributes(next, next.min_attributes.level))

(***************************************************************************)
(* SpecTrust: an operator with a trust bonus, queried at every trust from  *)
(* 0 to past the cap.                                                      *)
(***************************************************************************)

TrustCap == 200

MaxTrust == 201

MaxBonus == 50

MaxBonusAtk == 1

MaxBonusDef == 1

\* The favor key frames of a character: absent, or two key frames of which
\* the second carries the full bonus.
FavorKeyFrames ==
  {None} \cup
  { Some(<< KeyFrame(0, KeyFrameData(0, 0, 0, 0)), KeyFrame(50, KeyFrameData(hp, atk, def, 0)) >>) :
      hp \in 0..MaxBonus, atk \in 0..MaxBonusAtk, def \in 0..MaxBonusDef }

TrustPhases == PhaseSet({1}, 2, {1, 3}, {1}, {2}, {0})

TrustSamples == {0, TrustCap \div 2, TrustCap}

InitTrust ==
  /\ operator \in { OperatorOf(<< CHOOSE p \in TrustPhases : p.max_level = 2 >>, fkf) :
                      fkf \in FavorKeyFrames }
  /\ text = IdleText
  /\ blackboard = IdleBlackboard
  /\ assertions = FALSE
  /\ call \in { CallGetTrustLevelAttributes(trust) : trust \in 0..MaxTrust }
            \cup { CallGetAttributes(p, 1, trust) :
                     p \in {PromotionNone, PromotionElite1}, trust \in TrustSamples }
  /\ ret = Pending
  /\ data_files = IdleDataFiles
  /\ game_data = IdleGameData

NextTrust == GetTrustLevelAttributes \/ GetAttributes

SpecTrust == InitTrust /\ [][NextTrust]_vars

\* round(bonus * min(trust, 200) / 200) in exact arithmetic, halves up.
ExactTrust(bonus, trust) ==
  (2 * bonus * (IF trust < TrustCap THEN trust ELSE TrustCap) + TrustCap) \div (2 * TrustCap)

\* C6: get_trust_level_attributes(trust): trust = 0 returns (0,0,0); every
\* trust >= 200 returns the full bonus; for trust values a <= b each field at
\* a is <= the field at b; and each field is round(bonus * min(trust,200)/200).
C6_TrustCurve ==
  Returned("get_trust_level_attributes")
  => /\ call.trust = 0 => Unwrap(ret) = TrustAttributesDefault
     /\ call.trust >= TrustCap => Unwrap(ret) = operator.trust_bonus
     /\ call.trust > 0
          => \A f \in InterpolatedFields :
               get_trust_level_attributes(operator.trust_bonus, call.trust - 1)[f] <= Unwrap(ret)[f]
     /\ \A f \in InterpolatedFields :
          Unwrap(ret)[f] = ExactTrust(operator.trust_bonus[f], call.trust)

\* What does hold of the trust curve: its ends and its monotonicity.
TrustCurveEndsAndMonotone ==
  Returned("get_trust_level_attributes")
  => /\ call.trust = 0 => Unwrap(ret) = TrustAttributesDefault
     /\ call.trust >= TrustCap => Unwrap(ret) = operator.trust_bonus
     /\ call.trust > 0
          => \A f \in InterpolatedFields :
               get_trust_level_attributes(operator.trust_bonus, call.trust - 1)[f] <= Unwrap(ret)[f]

\* Operator::get_attributes adds the trust bonus at that trust to the
\* attributes of the level, and is None for a promotion the operator lacks.
AttributesAddTrust ==
  Returned("get_attributes")
  => IF IsSome(promotions_get(operator.promotions, call.promotion))
     THEN /\ IsSome(Unwrap(ret))
          /\ \A f \in InterpolatedFields :
               Unwrap(Unwrap(ret))[f] =
                 get_level_attributes(CalledPromotion, call.level)[f]
                   + get_trust_level_attributes(operator.trust_bonus, call.trust)[f]
     ELSE Unwrap(ret) = None

(***************************************************************************)
(* SpecOrder: three PromotionAndLevel values compared with each other.     *)
(***************************************************************************)

MaxOrderLevel == 2

PromotionAndLevels == { with_level(p, l) : p \in Promotion, l \in 0..MaxOrderLevel }

\* a.cmp(b), b.cmp(a), b.cmp(c) and a.cmp(c)
Compare ==
  /\ call.op = "cmp"
  /\ ret = Pending
  /\ ret' = Some([ab |-> PromotionAndLevelCmp(call.a, call.b),
                  ba |-> PromotionAndLevelCmp(call.b, call.a),
                  bc |-> PromotionAndLevelCmp(call.b, call.c),
                  ac |-> PromotionAndLevelCmp(call.a, call.c)])
  /\ UNCHANGED <<operator, text, blackboard, assertions, call, data_files, game_data>>

InitOrder ==
  /\ operator = IdleOperator
  /\ text = IdleText
  /\ blackboard = IdleBlackboard
  /\ assertions = FALSE
  /\ call \in { [op |-> "cmp", a |-> a, b |-> b, c |-> c] :
                  a \in PromotionAndLevels, b \in PromotionAndLevels, c \in PromotionAndLevels }
  /\ ret = Pending
  /\ data_files = IdleDataFiles
  /\ game_data = IdleGameData

NextOrder == Compare

SpecOrder == InitOrder /\ [][NextOrder]_vars

\* None < Elite1 < Elite2
TierBelow(p, q) ==
  \/ p = PromotionNone /\ q \in {PromotionElite1, PromotionElite2}
  \/ p = PromotionElite1 /\ q = PromotionElite2

\* C1: the comparison of PromotionAndLevel is a total order, lexicographic
\* on (promotion, level) with None < Elite1 < Elite2: a < b iff a's tier is
\* below b's, or the tiers are equal and a.level < b.level; so any level of
\* a lower tier is below any level of a higher tier.
C1_LexicographicOrder ==
  Returned("cmp")
  => LET r == Unwrap(ret) IN
     /\ r.ab = "Less" <=> \/ TierBelow(call.a.promotion, call.b.promotion)
                          \/ /\ call.a.promotion = call.b.promotion
                             /\ call.a.level < call.b.level
     /\ r.ab = "Equal" <=> call.a = call.b
     /\ r.ab = "Less" <=> r.ba = "Greater"
     /\ r.ab \in {"Less", "Equal", "Greater"}
     /\ (r.ab \in {"Less", "Equal"} /\ r.bc \in {"Less", "Equal"}) => r.ac \in {"Less", "Equal"}
     /\ TierBelow(call.a.promotion, call.b.promotion) => r.ab = "Less"

\* A value of a lower tier and a higher level was compared with one of a
\* higher tier and a lower level, and came out below it.
C1_Witness ==
  /\ Returned("cmp")
  /\ TierBelow(call.a.promotion, call.b.promotion)
  /\ call.a.level > call.b.level
  /\ Unwrap(ret).ab = "Less"
  /\ Unwrap(ret).bc = "Less"

(***************************************************************************)
(* Text.  A string is a sequence of one-character strings; the characters  *)
(* modelled are those of ASCII.                                            *)
(***************************************************************************)

LowercaseLetters ==
  <<"a", "b", "c", "d", "e", "f", "g", "h", "i", "j", "k", "l", "m",
    "n", "o", "p", "q", "r", "s", "t", "u", "v", "w", "x", "y", "z">>

UppercaseLetters ==
  <<"A", "B", "C", "D", "E", "F", "G", "H", "I", "J", "K", "L", "M",
    "N", "O", "P", "Q", "R", "S", "T", "U", "V", "W", "X", "Y", "Z">>

DigitChars == <<"0", "1", "2", "3", "4", "5", "6", "7", "8", "9">>

\* The class \w of the regular expressions.
WordChars ==
  { LowercaseLetters[i] : i \in DOMAIN LowercaseLetters }
    \cup { UppercaseLetters[i] : i \in DOMAIN UppercaseLetters }
    \cup { DigitChars[i] : i \in DOMAIN DigitChars }
    \cup {"_"}

\* The class [@$\w.] of RX_TAG.
TagChars == WordChars \cup {"@", "$", "."}

\* The class [\w:.%\-@\[\]] of RX_TEMPLATE.
TemplateChars == WordChars \cup {":", ".", "%", "-", "@", "[", "]"}

\* str::to_lowercase and str::to_uppercase
LowerOf(c) ==
  IF \E k \in DOMAIN UppercaseLetters : UppercaseLetters[k] = c
  THEN LowercaseLetters[CHOOSE k \in DOMAIN UppercaseLetters : UppercaseLetters[k] = c]
  ELSE c

UpperOf(c) ==
  IF \E k \in DOMAIN LowercaseLetters : LowercaseLetters[k] = c
  THEN UppercaseLetters[CHOOSE k \in DOMAIN LowercaseLetters : LowercaseLetters[k] = c]
  ELSE c

RECURSIVE to_lowercase(_)
to_lowercase(string) ==
  IF string = <<>> THEN <<>> ELSE <<LowerOf(string[1])>> \o to_lowercase(Tail(string))

\* A to_uppercase that leaves the string as it is.
to_uppercase_unchanged(string) == string

RECURSIVE to_uppercase(_)
to_uppercase(string) ==
  IF string = <<>> THEN <<>> ELSE <<UpperOf(string[1])>> \o to_uppercase(Tail(string))

\* str::strip_prefix and str::strip_suffix
strip_prefix(string, prefix) ==
  IF Len(string) >= Len(prefix) /\ SubSeq(string, 1, Len(prefix)) = prefix
  THEN Some(SubSeq(string, Len(prefix) + 1, Len(string)))
  ELSE None

strip_suffix(string, suffix) ==
  IF Len(string) >= Len(suffix)
       /\ SubSeq(string, Len(string) - Len(suffix) + 1, Len(string)) = suffix
  THEN Some(SubSeq(string, 1, Len(string) - Len(suffix)))
  ELSE None

ends_with(string, suffix) == IsSome(strip_suffix(string, suffix))

\* String::pop
pop(string) == SubSeq(string, 1, Len(string) - 1)

\* str::trim_matches: the characters of the set are removed from both ends.
RECURSIVE trim_matches(_, _)
trim_matches(string, set) ==
  IF string # <<>> /\ string[1] \in set THEN trim_matches(Tail(string), set)
  ELSE IF string # <<>> /\ string[Len(string)] \in set THEN trim_matches(pop(string), set)
  ELSE string

\* The number of consecutive characters of the class from position i on.
RECURSIVE RunLen(_, _, _)
RunLen(string, i, class) ==
  IF i <= Len(string) /\ string[i] \in class THEN 1 + RunLen(string, i + 1, class) ELSE 0

\* The length of the match of open class+ close at position i, 0 if none.  The
\* closing character is not of the class, so the greedy run is the only
\* candidate.
DelimitedMatchLen(string, i, open, class, close) ==
  LET run == RunLen(string, i + 1, class) IN
  IF /\ string[i] = open
     /\ run >= 1
     /\ i + 1 + run <= Len(string)
     /\ string[i + 1 + run] = close
  THEN run + 2
  ELSE 0

\* RX_TAG at position i: <[@$\w.]+> first, then </>.
RX_TAG(string, i) ==
  IF DelimitedMatchLen(string, i, "<", TagChars, ">") > 0
  THEN DelimitedMatchLen(string, i, "<", TagChars, ">")
  ELSE IF i + 2 <= Len(string) /\ SubSeq(string, i, i + 2) = <<"<", "/", ">">>
  THEN 3
  ELSE 0

\* RX_TEMPLATE at position i.
RX_TEMPLATE(string, i) == DelimitedMatchLen(string, i, "{", TemplateChars, "}")

\* Regex::replace_all(text, ""): the matches are found from left to right,
\* each search starting where the last match ended.
RECURSIVE StripTagsFrom(_, _)
StripTagsFrom(string, i) ==
  IF i > Len(string) THEN <<>>
  ELSE IF RX_TAG(string, i) > 0 THEN StripTagsFrom(string, i + RX_TAG(string, i))
  ELSE <<string[i]>> \o StripTagsFrom(string, i + 1)

strip_tags(string) == StripTagsFrom(string, 1)

(***************************************************************************)
(* SpecTags: strip_tags applied to every short text over the characters    *)
(* that tags are made of.                                                  *)
(***************************************************************************)

MaxTextLen == 6

TagAlphabet == {"<", ">", "/", "a"}

Texts(alphabet, maxLen) == UNION { [1..n -> alphabet] : n \in 0..maxLen }

StripTags ==
  /\ call.op = "strip_tags"
  /\ ret = Pending
  /\ ret' = Some(strip_tags(text))
  /\ UNCHANGED <<operator, text, blackboard, assertions, call, data_files, game_data>>

InitTags ==
  /\ operator = IdleOperator
  /\ text \in Texts(TagAlphabet, MaxTextLen)
  /\ blackboard = IdleBlackboard
  /\ assertions = FALSE
  /\ call = [op |-> "strip_tags"]
  /\ ret = Pending
  /\ data_files = IdleDataFiles
  /\ game_data = IdleGameData

NextTags == StripTags

SpecTags == InitTags /\ [][NextTags]_vars

\* Some position of the string starts a tag token.
HasTagToken(string) == \E i \in DOMAIN string : RX_TAG(string, i) > 0

\* C7: strip_tags is idempotent: strip_tags(strip_tags(text)) =
\* strip_tags(text) for every text, that is, the output of one pass holds no
\* opening tag token <...> and no closing token </>.
C7_StripTagsIdempotent ==
  Returned("strip_tags")
  => /\ strip_tags(Unwrap(ret)) = Unwrap(ret)
     /\ ~HasTagToken(Unwrap(ret))

\* What one pass does guarantee: the output is the input with the tokens
\* found from left to right removed, so it is no longer than the input and
\* equal to it when the input holds no token.
StripTagsShrinks ==
  Returned("strip_tags")
  => /\ Len(Unwrap(ret)) <= Len(text)
     /\ ~HasTagToken(text) => Unwrap(ret) = text

(***************************************************************************)
(* The decimal formatting of f32 values (format!).                         *)
(***************************************************************************)

Pow10 == [d \in 0..5 |-> 10^d]

\* The integer nearest to |x| * 10^d, ties to even, for a finite x,
\* d <= 5 and |x| * 10^d < 2^30.  The product of the significand and 10^d is
\* formed in two 12-digit limbs.
DecimalRound(x, d) ==
  IF x.m = 0 THEN 0
  ELSE IF x.e >= 0 THEN x.m * Pow2[x.e] * Pow10[d]
  ELSE LET k   == 0 - x.e
           h   == x.m \div 4096
           l   == x.m % 4096
           phi == h * Pow10[d] + (l * Pow10[d]) \div 4096
           plo == (l * Pow10[d]) % 4096
       IN IF k >= 12
          THEN LET j == k - 12 IN
               IF j > 30 THEN 0
               ELSE LET q     == phi \div Pow2[j]
                        r     == phi % Pow2[j]
                        above == IF j = 0 THEN plo > 2048
                                 ELSE r > Pow2[j-1] \/ (r = Pow2[j-1] /\ plo > 0)
                        tie   == IF j = 0 THEN plo = 2048
                                 ELSE r = Pow2[j-1] /\ plo = 0
                    IN IF above \/ (tie /\ q % 2 = 1) THEN q + 1 ELSE q
          ELSE LET q     == phi * Pow2[12 - k] + plo \div Pow2[k]
                   r     == plo % Pow2[k]
                   above == r > Pow2[k-1]
                   tie   == r = Pow2[k-1]
               IN IF above \/ (tie /\ q % 2 = 1) THEN q + 1 ELSE q

\* The decimal digits of n.
RECURSIVE DecimalDigits(_)
DecimalDigits(n) ==
  IF n < 10 THEN <<DigitChars[n + 1]>>
  ELSE DecimalDigits(n \div 10) \o <<DigitChars[(n % 10) + 1]>>

\* The last d decimal digits of n.
RECURSIVE FractionDigits(_, _)
FractionDigits(n, d) ==
  IF d = 0 THEN <<>>
  ELSE FractionDigits(n \div 10, d - 1) \o <<DigitChars[(n % 10) + 1]>>

\* format!("{:.d}", x): the value rounded to d places; the sign is that of
\* the sign bit.
FormatFixed(x, d) ==
  IF x.kind = "nan" THEN <<"N", "a", "N">>
  ELSE IF x.kind = "inf" THEN (IF x.neg THEN <<"-">> ELSE <<>>) \o <<"i", "n", "f">>
  ELSE LET n == DecimalRound(x, d) IN
       (IF x.neg THEN <<"-">> ELSE <<>>)
         \o DecimalDigits(n \div Pow10[d])
         \o (IF d > 0 THEN <<".">> \o FractionDigits(n % Pow10[d], d) ELSE <<>>)

\* The least number of places, from d on and at most five, with which the
\* decimal nearest to x reads back as x.
RECURSIVE ShortestPlaces(_, _)
ShortestPlaces(x, d) ==
  IF d >= 5 THEN d
  ELSE IF F32Div(F32FromU32(DecimalRound(x, d)), F32FromU32(Pow10[d])) = [x EXCEPT !.neg = FALSE]
  THEN d
  ELSE ShortestPlaces(x, d + 1)

\* format!("{}", x): the shortest decimal that reads back as x, for an x of
\* at most five places.
FormatDisplay(x) ==
  IF x.kind # "fin" THEN FormatFixed(x, 0) ELSE FormatFixed(x, ShortestPlaces(x, 0))

(***************************************************************************)
(* format.rs: the template engine.                                         *)
(***************************************************************************)

\* enum FormattingSuffix
FormattingSuffix == {"DecimalPercent", "IntegerPercent", "Decimal", "Integer", "None"}

\* The markers that strip_formatting_markers looks for.
MarkerDecimalPercent == <<":", "0", ".", "0", "%">>

MarkerIntegerPercent == <<":", "0", "%">>

MarkerDecimal == <<":", "0", ".", "0">>

MarkerInteger == <<":", "0">>

strip_formatting_markers(string0) ==
  LET negative == IsSome(strip_prefix(string0, <<"-">>))
      string   == IF negative THEN Unwrap(strip_prefix(string0, <<"-">>)) ELSE string0
      result(stripped, suffix) ==
        [key |-> to_lowercase(Unwrap(stripped)), negative |-> negative, suffix |-> suffix]
  IN IF IsSome(strip_suffix(string, MarkerDecimalPercent))
     THEN result(strip_suffix(string, MarkerDecimalPercent), "DecimalPercent")
     ELSE IF IsSome(strip_suffix(string, MarkerIntegerPercent))
     THEN result(strip_suffix(string, MarkerIntegerPercent), "IntegerPercent")
     ELSE IF IsSome(strip_suffix(string, MarkerDecimal))
     THEN result(strip_suffix(string, MarkerDecimal), "Decimal")
     ELSE IF IsSome(strip_suffix(string, MarkerInteger))
     THEN result(strip_suffix(string, MarkerInteger), "Integer")
     ELSE result(Some(string), "None")

\* An r that goes on to pop a zero after the decimal point is gone.
r_into_integer(string) ==
  LET s1 == IF ends_with(string, <<"0">>) THEN pop(string) ELSE string
      s2 == IF ends_with(s1, <<"0">>) THEN pop(s1) ELSE s1
      s3 == IF ends_with(s2, <<".">>) THEN pop(s2) ELSE s2
  IN IF ends_with(s3, <<"0">>) THEN pop(s3) ELSE s3

\* fn r of apply_formatting
r(string) ==
  LET s1 == IF ends_with(string, <<"0">>) THEN pop(string) ELSE string
      s2 == IF ends_with(s1, <<"0">>) THEN pop(s1) ELSE s1
  IN IF ends_with(s2, <<".">>) THEN pop(s2) ELSE s2

F32Hundred == F32FromU32(100)

apply_formatting(value0, negative, suffix) ==
  LET value == IF negative THEN F32Neg(value0) ELSE value0 IN
  CASE suffix = "DecimalPercent" -> r(FormatFixed(F32Mul(value, F32Hundred), 2) \o <<"%">>)
    [] suffix = "IntegerPercent" -> FormatFixed(F32Mul(value, F32Hundred), 0) \o <<"%">>
    [] suffix = "Decimal"        -> r(FormatFixed(value, 2))
    [] suffix = "Integer"        -> FormatFixed(value, 0)
    [] suffix = "None"           -> FormatDisplay(value)

\* The closure of apply_templates, applied to one match of RX_TEMPLATE: the
\* replacement, or a panic.
TemplateReplacement(match, blackboard_, assertions_) ==
  LET markers == strip_formatting_markers(trim_matches(match, {"{", "}"})) IN
  IF markers.key \in DOMAIN blackboard_
  THEN [panicked |-> FALSE,
        value    |-> apply_formatting(blackboard_[markers.key], markers.negative, markers.suffix)]
  ELSE IF assertions_
  THEN [panicked |-> TRUE, value |-> <<>>]
  ELSE [panicked |-> FALSE, value |-> to_uppercase(markers.key)]

\* Regex::replace_all(text, closure): the matches are found from left to
\* right in the text, the replacements are not searched again; a panic of
\* the closure ends the call.
RECURSIVE ReplaceTemplatesFrom(_, _, _, _)
ReplaceTemplatesFrom(string, i, blackboard_, assertions_) ==
  IF i > Len(string) THEN [panicked |-> FALSE, value |-> <<>>]
  ELSE LET n    == RX_TEMPLATE(string, i)
           head == IF n > 0
                   THEN TemplateReplacement(SubSeq(string, i, i + n - 1), blackboard_, assertions_)
                   ELSE [panicked |-> FALSE, value |-> <<string[i]>>]
           rest == ReplaceTemplatesFrom(string, IF n > 0 THEN i + n ELSE i + 1,
                                        blackboard_, assertions_)
       IN IF head.panicked \/ rest.panicked
          THEN [panicked |-> TRUE, value |-> <<>>]
          ELSE [panicked |-> FALSE, value |-> head.value \o rest.value]

apply_templates(string, blackboard_, assertions_) ==
  ReplaceTemplatesFrom(strip_tags(string), 1, blackboard_, assertions_)

DurationKey == <<"d", "u", "r", "a", "t", "i", "o", "n">>

\* SkillTableLevel::get_blackboard: the entries under their lower-cased
\* keys, a later entry replacing an earlier one, and "duration" last.
\* A get_blackboard that stores the keys as they are spelled.
get_blackboard_as_spelled(entries, duration) ==
  LET keys == { entries[i].key : i \in DOMAIN entries } \cup {DurationKey}
      last(k) == CHOOSE i \in DOMAIN entries :
                   /\ entries[i].key = k
                   /\ \A j \in DOMAIN entries : entries[j].key = k => j <= i
  IN [k \in keys |-> IF k = DurationKey THEN duration ELSE entries[last(k)].value]

\* A get_blackboard that puts the duration in first, so that an entry spelled
\* "duration" replaces it.
get_blackboard_duration_first(entries, duration) ==
  LET keys == { to_lowercase(entries[i].key) : i \in DOMAIN entries } \cup {DurationKey}
      last(k) == CHOOSE i \in DOMAIN entries :
                   /\ to_lowercase(entries[i].key) = k
                   /\ \A j \in DOMAIN entries : to_lowercase(entries[j].key) = k => j <= i
  IN [k \in keys |-> IF \E i \in DOMAIN entries : to_lowercase(entries[i].key) = k
                     THEN entries[last(k)].value ELSE duration]

get_blackboard(entries, duration) ==
  LET keys == { to_lowercase(entries[i].key) : i \in DOMAIN entries } \cup {DurationKey}
      last(k) == CHOOSE i \in DOMAIN entries :
                   /\ to_lowercase(entries[i].key) = k
                   /\ \A j \in DOMAIN entries : to_lowercase(entries[j].key) = k => j <= i
  IN [k \in keys |-> IF k = DurationKey THEN duration ELSE entries[last(k)].value]

ApplyTemplates ==
  /\ call.op = "apply_templates"
  /\ ret = Pending
  /\ ret' = Some(apply_templates(text, blackboard, assertions))
  /\ UNCHANGED <<operator, text, blackboard, assertions, call, data_files, game_data>>

(***************************************************************************)
(* The texts the template engine is run on: literals, tags and             *)
(* placeholders, each with what it is expected to stand for.               *)
(***************************************************************************)

MarkerOf(suffix) ==
  CASE suffix = "DecimalPercent" -> MarkerDecimalPercent
    [] suffix = "IntegerPercent" -> MarkerIntegerPercent
    [] suffix = "Decimal"        -> MarkerDecimal
    [] suffix = "Integer"        -> MarkerInteger
    [] suffix = "None"           -> <<>>

\* The placeholder {[-]name[marker]}; key and upper are the name in lower
\* and in upper case.
Placeholder(negative, name, key, upper, suffix) ==
  [kind |-> "placeholder",
   text |-> <<"{">> \o (IF negative THEN <<"-">> ELSE <<>>) \o name \o MarkerOf(suffix) \o <<"}">>,
   key |-> key, upper |-> upper, negative |-> negative, suffix |-> suffix]

Literal(string) ==
  [kind |-> "literal", text |-> string,
   key |-> <<>>, upper |-> <<>>, negative |-> FALSE, suffix |-> "None"]

Tag(string) ==
  [kind |-> "tag", text |-> string,
   key |-> <<>>, upper |-> <<>>, negative |-> FALSE, suffix |-> "None"]

RECURSIVE ConcatAll(_)
ConcatAll(strings) ==
  IF strings = <<>> THEN <<>> ELSE strings[1] \o ConcatAll(Tail(strings))

TextOf(pieces) == ConcatAll([i \in DOMAIN pieces |-> pieces[i].text])

AtkName == <<"A", "t", "k">>

AtkKey == <<"a", "t", "k">>

AtkUpper == <<"A", "T", "K">>

\* The value of the blackboard entry as the JSON number n/d is read: the
\* nearest f32.
EntryValue(n, d) == F32Div(F32FromU32(n), F32FromU32(d))

SkillDuration == F32FromU32(10)

(***************************************************************************)
(* SpecFormatting: one placeholder of a key the blackboard has, for every  *)
(* marker, sign and a range of values.                                     *)
(***************************************************************************)

MaxNumerator == 255

Denominators == {1, 10, 100, 1000}

InitFormatting ==
  /\ operator = IdleOperator
  /\ assertions = FALSE
  /\ call \in { [op |-> "apply_templates",
                 pieces |-> << Placeholder(negative, AtkName, AtkKey, AtkUpper, suffix) >>,
                 entries |-> << [key |-> AtkName, value |-> EntryValue(n, d)] >>] :
                  negative \in BOOLEAN, suffix \in FormattingSuffix,
                  n \in 0..MaxNumerator, d \in Denominators }
  /\ text = TextOf(call.pieces)
  /\ blackboard = get_blackboard(call.entries, SkillDuration)
  /\ ret = Pending
  /\ data_files = IdleDataFiles
  /\ game_data = IdleGameData

NextFormatting == ApplyTemplates

SpecFormatting == InitFormatting /\ [][NextFormatting]_vars

\* The decimal of n hundredths without the fraction's trailing zeros and
\* without a bare decimal point.
Canonical(negative, n) ==
  (IF negative THEN <<"-">> ELSE <<>>)
    \o DecimalDigits(n \div 100)
    \o (IF n % 100 = 0 THEN <<>>
        ELSE IF n % 10 = 0 THEN <<".", DigitChars[((n % 100) \div 10) + 1]>>
        ELSE <<".", DigitChars[((n % 100) \div 10) + 1], DigitChars[(n % 10) + 1]>>)

CalledPiece == call.pieces[1]

CalledValue == call.entries[1].value

CalledWith(suffix, n, d) ==
  /\ CalledPiece.suffix = suffix
  /\ ~CalledPiece.negative
  /\ CalledValue = EntryValue(n, d)

\* C8: a placeholder with the marker :0.0% renders the value times 100 with
\* two decimals, the trailing zeros of the fraction and a bare decimal point
\* removed, followed by %: 0.20 renders "20%" and 0.255 renders "25.5%".
C8_DecimalPercent ==
  (Returned("apply_templates") /\ CalledPiece.suffix = "DecimalPercent")
  => /\ ~Unwrap(ret).panicked
     /\ Unwrap(ret).value =
          Canonical(CalledPiece.negative, DecimalRound(F32Mul(CalledValue, F32Hundred), 2))
            \o <<"%">>
     /\ CalledWith("DecimalPercent", 20, 100) => Unwrap(ret).value = <<"2", "0", "%">>
     /\ CalledWith("DecimalPercent", 255, 1000) => Unwrap(ret).value = <<"2", "5", ".", "5", "%">>

\* What the marker :0.0% does render: the two decimals in full.
DecimalPercentKeepsZeros ==
  (Returned("apply_templates") /\ CalledPiece.suffix = "DecimalPercent")
  => /\ ~Unwrap(ret).panicked
     /\ Unwrap(ret).value =
          FormatFixed(F32Mul(IF CalledPiece.negative THEN F32Neg(CalledValue) ELSE CalledValue,
                             F32Hundred), 2) \o <<"%">>

\* C9: a placeholder with the marker :0.0 renders the value with two
\* decimals, then without the trailing zeros of the fraction and without a
\* bare decimal point, and with every digit of the integer part: 1.0 renders
\* "1", 1.20 renders "1.2", 10.0 renders "10", 1.05 renders "1.05".
C9_Decimal ==
  (Returned("apply_templates") /\ CalledPiece.suffix = "Decimal")
  => /\ ~Unwrap(ret).panicked
     /\ Unwrap(ret).value = Canonical(CalledPiece.negative, DecimalRound(CalledValue, 2))
     /\ CalledWith("Decimal", 1, 1) => Unwrap(ret).value = <<"1">>
     /\ CalledWith("Decimal", 120, 100) => Unwrap(ret).value = <<"1", ".", "2">>
     /\ CalledWith("Decimal", 10, 1) => Unwrap(ret).value = <<"1", "0">>
     /\ CalledWith("Decimal", 105, 100) => Unwrap(ret).value = <<"1", ".", "0", "5">>

\* {Atk:0.0} was rendered for the value 10.0, whose integer part ends in a
\* zero, and came out as "10".
C9_Witness ==
  /\ Returned("apply_templates")
  /\ CalledWith("Decimal", 10, 1)
  /\ text = <<"{", "A", "t", "k", ":", "0", ".", "0", "}">>
  /\ Unwrap(ret).value = <<"1", "0">>

(***************************************************************************)
(* SpecTemplates: texts of a few pieces, among them placeholders of a key  *)
(* the blackboard may lack, in the permissive and in the strict build.     *)
(***************************************************************************)

MaxPieces == 2

HpName == <<"H", "p">>

HpKey == <<"h", "p">>

HpUpper == <<"H", "P">>

TemplatePieces ==
  { Placeholder(FALSE, AtkName, AtkKey, AtkUpper, suffix) : suffix \in FormattingSuffix }
    \cup { Placeholder(TRUE, AtkName, AtkKey, AtkUpper, "Decimal"),
           Placeholder(FALSE, HpName, HpKey, HpUpper, "None"),
           Placeholder(TRUE, HpName, HpKey, HpUpper, "IntegerPercent"),
           Placeholder(FALSE, DurationKey, DurationKey, to_uppercase(DurationKey), "Integer"),
           Literal(<<"x", " ">>),
           Literal(<<"%">>),
           Tag(<<"<", "@", "b", ".", "v", ">">>),
           Tag(<<"<", "/", ">">>) }

\* The blackboard entries of a skill level: none, one of the key Atk, or
\* two of keys that differ in case only.
TemplateEntries ==
  { <<>>,
    << [key |-> AtkName, value |-> EntryValue(20, 100)] >>,
    << [key |-> AtkName, value |-> EntryValue(105, 100)] >>,
    << [key |-> AtkUpper, value |-> EntryValue(1, 1)],
       [key |-> AtkKey, value |-> EntryValue(120, 100)] >> }

InitTemplates ==
  /\ operator = IdleOperator
  /\ assertions \in BOOLEAN
  /\ call \in { [op |-> "apply_templates", pieces |-> pieces, entries |-> entries] :
                  pieces \in UNION { [1..n -> TemplatePieces] : n \in 0..MaxPieces },
                  entries \in TemplateEntries }
  /\ text = TextOf(call.pieces)
  /\ blackboard = get_blackboard(call.entries, SkillDuration)
  /\ ret = Pending
  /\ data_files = IdleDataFiles
  /\ game_data = IdleGameData

NextTemplates == ApplyTemplates

SpecTemplates == InitTemplates /\ [][NextTemplates]_vars

\* The piece is a placeholder whose key the blackboard lacks.
Unresolved(piece) == piece.kind = "placeholder" /\ piece.key \notin DOMAIN blackboard

\* What a piece stands for in the permissive build.
Rendering(piece) ==
  CASE piece.kind = "literal" -> piece.text
    [] piece.kind = "tag" -> <<>>
    [] piece.kind = "placeholder" ->
         IF Unresolved(piece) THEN piece.upper
         ELSE apply_formatting(blackboard[piece.key], piece.negative, piece.suffix)

\* C10: a placeholder whose key (braces, leading '-' and marker removed,
\* lower-cased) is not in the blackboard is, in the permissive build,
\* replaced by the upper-cased key while the call succeeds and every other
\* piece of the text is rendered as usual; only the strict build (feature
\* "assertions") fails, and only on such a placeholder.
C10_UnresolvedKey ==
  Returned("apply_templates")
  => LET out        == Unwrap(ret)
         unresolved == \E i \in DOMAIN call.pieces : Unresolved(call.pieces[i])
         rendered   == ConcatAll([i \in DOMAIN call.pieces |-> Rendering(call.pieces[i])])
     IN /\ ~assertions => ~out.panicked /\ out.value = rendered
        /\ assertions => (out.panicked <=> unresolved)
        /\ ~out.panicked => out.value = rendered

\* In the permissive build, {Atk:0.0%}{-Hp:0%} was rendered with atk in the
\* blackboard and hp not: the text ends with HP.
C10_Witness ==
  /\ Returned("apply_templates")
  /\ ~assertions
  /\ Len(call.pieces) = 2
  /\ call.pieces[1].kind = "placeholder" /\ ~Unresolved(call.pieces[1])
  /\ call.pieces[2] = Placeholder(TRUE, HpName, HpKey, HpUpper, "IntegerPercent")
  /\ ~Unwrap(ret).panicked
  /\ Unwrap(ret).value = Rendering(call.pieces[1]) \o <<"H", "P">>

\* The strict build met a placeholder of an unknown key and panicked.
StrictPanicReached ==
  /\ Returned("apply_templates")
  /\ assertions
  /\ Unwrap(ret).panicked

\* get_blackboard keeps the later of two entries whose keys differ in case
\* only, and always holds the duration.
BlackboardOfEntries ==
  /\ DurationKey \in DOMAIN blackboard
  /\ Len(call.entries) = 2 => blackboard[AtkKey] = call.entries[2].value

(***************************************************************************)
(* skill_table.rs: the description of a skill level.                       *)
(***************************************************************************)

\* SkillTableLevel::apply_blackboard: no description, or the description
\* "-", gives None.
apply_blackboard(self, assertions_) ==
  IF ~IsSome(self.description) \/ Unwrap(self.description) = <<"-">>
  THEN [panicked |-> FALSE, value |-> None]
  ELSE LET rendered == apply_templates(Unwrap(self.description),
                                       get_blackboard(self.blackboard, self.duration),
                                       assertions_)
       IN [panicked |-> rendered.panicked,
           value    |-> IF rendered.panicked THEN None ELSE Some(rendered.value)]

ApplyBlackboard ==
  /\ call.op = "apply_blackboard"
  /\ ret = Pending
  /\ ret' = Some(apply_blackboard(call.level, assertions))
  /\ UNCHANGED <<operator, text, blackboard, assertions, call, data_files, game_data>>

(***************************************************************************)
(* SpecBlackboard: a skill level whose description is one placeholder,     *)
(* with blackboard entries whose keys are spelled in several cases.        *)
(***************************************************************************)

MaxEntries == 2

DurationName == <<"D", "u", "r", "a", "t", "i", "o", "n">>

DurationUpper == <<"D", "U", "R", "A", "T", "I", "O", "N">>

EntryKeys == {AtkKey, AtkUpper, DurationName, DurationUpper}

EntryValues == {EntryValue(20, 100), EntryValue(105, 100)}

BlackboardEntries ==
  UNION { [1..n -> [key : EntryKeys, value : EntryValues]] : n \in 1..MaxEntries }

BlackboardPieces ==
  { Placeholder(negative, name, AtkKey, AtkUpper, suffix) :
      negative \in BOOLEAN, name \in {AtkKey, AtkName, AtkUpper}, suffix \in FormattingSuffix }
    \cup { Placeholder(negative, DurationUpper, DurationKey, DurationUpper, suffix) :
             negative \in BOOLEAN, suffix \in FormattingSuffix }

InitBlackboard ==
  /\ operator = IdleOperator
  /\ assertions \in BOOLEAN
  /\ call \in { [op |-> "apply_blackboard",
                 pieces |-> <<piece>>,
                 level |-> [description |-> Some(piece.text),
                            blackboard |-> entries,
                            duration |-> SkillDuration]] :
                  piece \in BlackboardPieces, entries \in BlackboardEntries }
  /\ text = Unwrap(call.level.description)
  /\ blackboard = IdleBlackboard
  /\ ret = Pending
  /\ data_files = IdleDataFiles
  /\ game_data = IdleGameData

NextBlackboard == ApplyBlackboard

SpecBlackboard == InitBlackboard /\ [][NextBlackboard]_vars

\* The entry's key is the placeholder's key up to letter case.
EntryMatches(entry) == to_lowercase(entry.key) = CalledPiece.key

\* C11 as stated: for every explicit blackboard entry (key, value) of the
\* skill level and a placeholder whose key equals that key up to letter
\* case, with any leading '-' and marker, the placeholder is substituted by
\* the formatted value of the entry, never by the missing-key marker.
C11_CaseInsensitiveLookup ==
  Returned("apply_blackboard")
  => \A i \in DOMAIN call.level.blackboard :
       EntryMatches(call.level.blackboard[i])
       => /\ ~Unwrap(ret).panicked
          /\ Unwrap(ret).value =
               Some(apply_formatting(call.level.blackboard[i].value,
                                     CalledPiece.negative, CalledPiece.suffix))

\* C11 amended: the placeholder is substituted by the formatted value of the
\* last entry whose key equals the placeholder's up to letter case, or by the
\* formatted duration of the skill level when that key is "duration"; never
\* by the missing-key marker, so the strict build does not panic either.
C11_LastEntryOrDuration ==
  Returned("apply_blackboard")
  => \A i \in DOMAIN call.level.blackboard :
       (/\ EntryMatches(call.level.blackboard[i])
        /\ \A j \in DOMAIN call.level.blackboard :
             EntryMatches(call.level.blackboard[j]) => j <= i)
       => /\ ~Unwrap(ret).panicked
          /\ Unwrap(ret).value =
               Some(apply_formatting(IF CalledPiece.key = DurationKey
                                     THEN call.level.duration
                                     ELSE call.level.blackboard[i].value,
                                     CalledPiece.negative, CalledPiece.suffix))
          /\ Unwrap(ret).value # Some(CalledPiece.upper)

\* In the strict build, {-atk:0.0} was rendered with the one entry ATK = 1.05.
C11_Witness ==
  /\ Returned("apply_blackboard")
  /\ assertions
  /\ call.level.blackboard = << [key |-> AtkUpper, value |-> EntryValue(105, 100)] >>
  /\ CalledPiece = Placeholder(TRUE, AtkKey, AtkKey, AtkUpper, "Decimal")
  /\ Unwrap(ret).value = Some(<<"-", "1", ".", "0", "5">>)

\* C25: the blackboard of a skill level maps "duration" to the duration of
\* the level, whatever entries the level has, one spelled "duration" in any
\* letter case included, and a {duration} placeholder is rendered with the
\* formatted duration of the level.
C25_DurationInjected ==
  Returned("apply_blackboard")
  => /\ DurationKey \in DOMAIN get_blackboard(call.level.blackboard, call.level.duration)
     /\ get_blackboard(call.level.blackboard, call.level.duration)[DurationKey]
          = call.level.duration
     /\ CalledPiece.key = DurationKey
        => /\ ~Unwrap(ret).panicked
           /\ Unwrap(ret).value = Some(apply_formatting(call.level.duration,
                                                        CalledPiece.negative,
                                                        CalledPiece.suffix))

\* {DURATION} was rendered as 10, the duration of the level, although the
\* level has the entries DURATION = 0.2 and Duration = 1.05.
C25_Witness ==
  /\ Returned("apply_blackboard")
  /\ call.level.blackboard = << [key |-> DurationUpper, value |-> EntryValue(20, 100)],
                                [key |-> DurationName, value |-> EntryValue(105, 100)] >>
  /\ CalledPiece.key = DurationKey
  /\ ~CalledPiece.negative
  /\ CalledPiece.suffix = "None"
  /\ Unwrap(ret).value = Some(<<"1", "0">>)

(***************************************************************************)
(* The assembly of the operators (DataFiles::into_game_data).              *)
(*                                                                         *)
(* A HashMap is a function on the set of its keys.  A function of the      *)
(* program that can panic returns [panicked, value]; value is then an      *)
(* Option where the function returns one.                                  *)
(***************************************************************************)

EmptyMap == << >>

\* HashMap::get
MapGet(map, key) == IF key \in DOMAIN map THEN Some(map[key]) ELSE None

\* The map after HashMap::remove
MapRemove(map, key) == [k \in DOMAIN map \ {key} |-> map[k]]

\* The map after HashMap::insert
MapInsert(map, key, value) ==
  [k \in DOMAIN map \cup {key} |-> IF k = key THEN value ELSE map[k]]

Returns(value) == [panicked |-> FALSE, value |-> value]

Panics == [panicked |-> TRUE, value |-> None]

\* Some(value) of a result that has not panicked.
OptionOf(result) == IF result.panicked THEN Panics ELSE Returns(Some(result.value))

\* recollect over results that may have panicked: the first panic ends it.
RECURSIVE recollect(_)
recollect(results) ==
  IF results = <<>> THEN Returns(<<>>)
  ELSE IF results[1].panicked THEN Panics
  ELSE LET rest == recollect(Tail(results))
       IN IF rest.panicked THEN Panics ELSE Returns(<<results[1].value>> \o rest.value)

\* recollect_maybe over the results of a closure that returns an Option and
\* may panic: collecting into Option<C> stops at the first None, so what
\* comes after it is not evaluated.
RECURSIVE recollect_maybe(_)
recollect_maybe(results) ==
  IF results = <<>> THEN Returns(Some(<<>>))
  ELSE IF results[1].panicked THEN Panics
  ELSE IF ~IsSome(results[1].value) THEN Returns(None)
  ELSE LET rest == recollect_maybe(Tail(results))
       IN IF rest.panicked THEN Panics
          ELSE IF ~IsSome(rest.value) THEN Returns(None)
          ELSE Returns(Some(<<Unwrap(results[1].value)>> \o Unwrap(rest.value)))

\* all_equal: the first item if every item equals it, None for no items.
all_equal(items) ==
  IF items = <<>> THEN None
  ELSE IF \A i \in DOMAIN items : items[i] = items[1] THEN Some(items[1])
  ELSE None

\* CharCondition::into_promotion_and_level: a phase above 2 panics.
into_promotion_and_level(self) ==
  IF self.phase \in Promotion
  THEN Returns(with_level(self.phase, self.level))
  ELSE Panics

(***************************************************************************)
(* skill_table.rs and CharacterTableSkill.                                 *)
(***************************************************************************)

BaseLevels == 7

MasteryLevels == 3

\* SkillTableSkillType::into_activation and SkillTableSpType::into_recovery
into_activation(skill_type) ==
  CASE skill_type = 0 -> "Passive"
    [] skill_type = 1 -> "Manual"
    [] skill_type = 2 -> "Auto"

into_recovery(sp_type) ==
  CASE sp_type = 8 -> "Passive"
    [] sp_type = 1 -> "AutoRecovery"
    [] sp_type = 2 -> "OffensiveRecovery"
    [] sp_type = 4 -> "DefensiveRecovery"

\* SkillTableEntry::split_levels
split_levels(self) ==
  IF Len(self.levels) < BaseLevels THEN None
  ELSE Some([start |-> SubSeq(self.levels, 1, BaseLevels),
             end   |-> IF Len(self.levels) - BaseLevels = MasteryLevels
                       THEN Some(SubSeq(self.levels, BaseLevels + 1, Len(self.levels)))
                       ELSE None])

\* A name_activation_recovery that takes the first level's word for it.
name_activation_recovery_of_first(self) ==
  IF self.levels = <<>> THEN None
  ELSE Some(<<self.levels[1].name, into_activation(self.levels[1].skill_type),
              into_recovery(self.levels[1].sp_type)>>)

\* SkillTableEntry::name_activation_recovery: over all the levels.
name_activation_recovery(self) ==
  all_equal([i \in DOMAIN self.levels |->
               <<self.levels[i].name, into_activation(self.levels[i].skill_type),
                 into_recovery(self.levels[i].sp_type)>>])

\* The OperatorSkillLevel of a level, given its rendered description.
OperatorSkillLevel(self, description) ==
  IF description.panicked THEN Panics
  ELSE Returns([description |-> description.value, duration |-> self.duration])

\* SkillTableLevel::into_skill_level
into_skill_level(self, assertions_) ==
  OperatorSkillLevel(self, apply_blackboard(self, assertions_))

\* The OperatorSkillMastery of a mastery upgrade, given its condition and its
\* level.
OperatorSkillMastery(self, condition, level) ==
  IF condition.panicked \/ level.panicked THEN Panics
  ELSE Returns([condition |-> condition.value, upgrade_time |-> self.level_up_time,
                level |-> level.value])

\* CharacterTableSkillMastery::into_operator_skill_mastery
into_operator_skill_mastery(self, skill_table_level, assertions_) ==
  OperatorSkillMastery(self, into_promotion_and_level(self.unlock_condition),
                       into_skill_level(skill_table_level, assertions_))

\* The OperatorSkill of a skill, given its name, activation and recovery, its
\* seven levels, its masteries (if it has them) and its condition.
OperatorSkill(self, nar, levels, mastery, condition) ==
  IF levels.panicked \/ mastery.panicked \/ condition.panicked THEN Panics
  ELSE Returns(Some([id         |-> Unwrap(self.id),
                     name       |-> nar[1],
                     prefab_key |-> self.override_prefab_key,
                     condition  |-> condition.value,
                     activation |-> nar[2],
                     recovery   |-> nar[3],
                     levels     |-> levels.value,
                     mastery    |-> mastery.value]))

\* self.mastery_upgrades.zip(skill_table_levels3).map(zip_map(...)): the
\* masteries, if the skill has both the upgrades and the three levels.
into_mastery(mastery_upgrades, levels3, assertions_) ==
  IF ~IsSome(mastery_upgrades) \/ ~IsSome(levels3) THEN Returns(None)
  ELSE OptionOf(recollect([i \in 1..MasteryLevels |->
         into_operator_skill_mastery(Unwrap(mastery_upgrades)[i], Unwrap(levels3)[i],
                                     assertions_)]))

\* CharacterTableSkill::into_operator_skill, once the skill is found in the
\* skill table.
into_operator_skill_of(self, skill_table_entry, assertions_) ==
  IF \/ ~IsSome(name_activation_recovery(skill_table_entry))
     \/ ~IsSome(split_levels(skill_table_entry))
  THEN Returns(None)
  ELSE OperatorSkill(
         self,
         Unwrap(name_activation_recovery(skill_table_entry)),
         recollect([i \in 1..BaseLevels |->
           into_skill_level(Unwrap(split_levels(skill_table_entry)).start[i], assertions_)]),
         into_mastery(self.mastery_upgrades, Unwrap(split_levels(skill_table_entry)).end,
                      assertions_),
         into_promotion_and_level(self.unlock_condition))

\* CharacterTableSkill::into_operator_skill
into_operator_skill(self, skill_table, assertions_) ==
  IF ~IsSome(self.id) THEN Returns(None)
  ELSE IF ~IsSome(MapGet(skill_table, Unwrap(self.id))) THEN Returns(None)
  ELSE into_operator_skill_of(self, skill_table[Unwrap(self.id)], assertions_)

(***************************************************************************)
(* Talents (CharacterTableTalent).                                         *)
(***************************************************************************)

\* CharacterTableTalentCandidate::into_operator_talent_phase: the name, then
\* the description, then the condition.
into_operator_talent_phase(self) ==
  IF ~IsSome(self.name) THEN Returns(None)
  ELSE IF ~IsSome(self.description) THEN Returns(None)
  ELSE LET condition == into_promotion_and_level(self.unlock_condition) IN
       IF condition.panicked THEN Panics
       ELSE Returns(Some([name               |-> Unwrap(self.name),
                          description        |-> strip_tags(Unwrap(self.description)),
                          condition          |-> condition.value,
                          required_potential |-> self.required_potential_rank]))

\* An into_operator_talent that leaves out the phases it cannot resolve.
into_operator_talent_filtered(self) ==
  LET resolved == [i \in DOMAIN self.phases |-> into_operator_talent_phase(self.phases[i])]
      kept     == SelectSeq(resolved, LAMBDA phase : phase.panicked \/ IsSome(phase.value))
      phases   == recollect_maybe(kept)
  IN IF phases.panicked THEN Panics
     ELSE Returns(Some([phases |-> Unwrap(phases.value)]))

\* CharacterTableTalent::into_operator_talent
into_operator_talent(self) ==
  LET phases == recollect_maybe([i \in DOMAIN self.phases |->
                                   into_operator_talent_phase(self.phases[i])])
  IN IF phases.panicked THEN Panics
     ELSE IF ~IsSome(phases.value) THEN Returns(None)
     ELSE Returns(Some([phases |-> Unwrap(phases.value)]))

(***************************************************************************)
(* equip_table.rs                                                          *)
(***************************************************************************)

\* Iterator::skip
skip(items, n) == SubSeq(items, n + 1, Len(items))

\* EquipTableEquip::into_operator_module: None if a mission of the module is
\* not in the mission list; the mission list is only read.
into_operator_module(self, mission_list) ==
  IF \E i \in DOMAIN self.mission_list : self.mission_list[i] \notin DOMAIN mission_list
  THEN None
  ELSE Some([id        |-> self.id,
             condition |-> with_level(self.unlock_phase, self.unlock_level),
             missions  |-> [i \in DOMAIN self.mission_list |->
                              <<self.mission_list[i], mission_list[self.mission_list[i]]>>]])

\* The closure of take_operator_modules over the IDs that are left: each ID
\* is removed from equip_list before its record is converted, and the first
\* ID without a record or without a module ends it.
RECURSIVE take_operator_modules_from(_, _)
take_operator_modules_from(ids, self) ==
  IF ids = <<>> THEN [value |-> Some(<<>>), equip_table |-> self]
  ELSE LET removed == MapGet(self.equip_list, ids[1])
           after   == [self EXCEPT !.equip_list = MapRemove(@, ids[1])]
           module  == IF IsSome(removed)
                      THEN into_operator_module(Unwrap(removed), after.mission_list)
                      ELSE None
       IN IF ~IsSome(module) THEN [value |-> None, equip_table |-> after]
          ELSE LET rest == take_operator_modules_from(Tail(ids), after)
               IN [value       |-> IF IsSome(rest.value)
                                   THEN Some(<<Unwrap(module)>> \o Unwrap(rest.value))
                                   ELSE None,
                   equip_table |-> rest.equip_table]

\* A take_operator_modules that leaves the modules it cannot resolve out of
\* the list instead of giving up the list.
take_operator_modules_partial(self, id) ==
  IF id \notin DOMAIN self.character_equip_list
  THEN [value |-> None, equip_table |-> self]
  ELSE LET ids      == skip(self.character_equip_list[id], 1)
           resolves(i) == /\ ids[i] \in DOMAIN self.equip_list
                          /\ \A j \in 1..(i - 1) : ids[j] # ids[i]
                          /\ IsSome(into_operator_module(self.equip_list[ids[i]], self.mission_list))
           kept     == SelectSeq([i \in DOMAIN ids |-> <<i, ids[i]>>], LAMBDA slot : resolves(slot[1]))
       IN [value       |-> Some([i \in DOMAIN kept |->
                                   Unwrap(into_operator_module(self.equip_list[kept[i][2]],
                                                               self.mission_list))]),
           equip_table |-> [self EXCEPT
                              !.character_equip_list = MapRemove(@, id),
                              !.equip_list = [k \in DOMAIN @ \ {ids[i] : i \in DOMAIN ids} |-> @[k]]]]

\* EquipTable::take_operator_modules: the list of the character is removed,
\* and its first ID is skipped (a character without a list, or with an empty
\* one, has no modules).
take_operator_modules(self, id) ==
  IF id \notin DOMAIN self.character_equip_list
  THEN [value |-> None, equip_table |-> self]
  ELSE LET character_equip_list == self.character_equip_list[id]
           after == [self EXCEPT !.character_equip_list = MapRemove(@, id)]
       IN take_operator_modules_from(skip(character_equip_list, 1), after)

(***************************************************************************)
(* handbook_info_table.rs                                                  *)
(***************************************************************************)

\* HandbookInfoTableEntry::into_operator_file
into_operator_file(self) ==
  [id |-> self.char_id, illustrator_name |-> self.illustrator_name]

\* A take_operator_file that reads the entry and leaves it in the table.
take_operator_file_kept(self, id) ==
  [value               |-> IF id \in DOMAIN self.handbook_dict
                           THEN Some(into_operator_file(self.handbook_dict[id]))
                           ELSE None,
   handbook_info_table |-> self]

\* A take_operator_file that empties the handbook when it takes an entry.
take_operator_file_clearing(self, id) ==
  [value               |-> IF id \in DOMAIN self.handbook_dict
                           THEN Some(into_operator_file(self.handbook_dict[id]))
                           ELSE None,
   handbook_info_table |-> [self EXCEPT !.handbook_dict = EmptyMap]]

\* HandbookInfoTable::take_operator_file
take_operator_file(self, id) ==
  [value               |-> IF id \in DOMAIN self.handbook_dict
                           THEN Some(into_operator_file(self.handbook_dict[id]))
                           ELSE None,
   handbook_info_table |-> [self EXCEPT !.handbook_dict = MapRemove(@, id)]]

(***************************************************************************)
(* building_data.rs                                                        *)
(***************************************************************************)

\* BuildingDataBuff::to_operator_base_skill_phase
buff_to_operator_base_skill_phase(self, condition) ==
  LET promotion_and_level == into_promotion_and_level(condition) IN
  IF promotion_and_level.panicked THEN Panics
  ELSE Returns([name |-> self.name, condition |-> promotion_and_level.value,
                sort |-> self.sort])

\* BuildingDataCharBuffPhase::to_operator_base_skill_phase: indexing the
\* buffs with an ID they do not have panics.
to_operator_base_skill_phase(self, building_data) ==
  IF self.id \notin DOMAIN building_data.buffs THEN Panics
  ELSE buff_to_operator_base_skill_phase(building_data.buffs[self.id], self.condition)

\* BuildingDataCharBuff::to_operator_base_skill
to_operator_base_skill(self, building_data) ==
  IF self.phases = <<>> THEN Returns(None)
  ELSE LET phases == recollect([i \in DOMAIN self.phases |->
                                  to_operator_base_skill_phase(self.phases[i], building_data)])
       IN IF phases.panicked THEN Panics
          ELSE Returns(Some([phases |-> phases.value]))

\* BuildingData::get_operator_base_skill: building_data is only read.
get_operator_base_skill(self, id) ==
  IF id \notin DOMAIN self.chars THEN Returns(<<>>)
  ELSE LET buffs    == self.chars[id].buffs
           resolved == [i \in DOMAIN buffs |-> to_operator_base_skill(buffs[i], self)]
           kept     == SelectSeq(resolved, LAMBDA skill : skill.panicked \/ IsSome(skill.value))
           skills   == recollect(kept)
       IN IF skills.panicked THEN Panics
          ELSE Returns([i \in DOMAIN skills.value |-> Unwrap(skills.value[i])])

(***************************************************************************)
(* CharacterTableEntry::into_operator and DataFiles::into_game_data.       *)
(***************************************************************************)

Professions ==
  {"Caster", "Medic", "Vanguard", "Sniper", "Specialist", "Support", "Tank", "Guard"}

\* CharacterTableProfession::into_profession: Token and Trap are no
\* professions.
into_profession(self) == IF self \in Professions THEN Some(self) ELSE None

NonCharacterSubProfessions == {"None1", "None2", "NotChar1", "NotChar2"}

\* CharacterTableSubProfession::into_sub_profession
into_sub_profession(self) ==
  IF self \in NonCharacterSubProfessions THEN None ELSE Some(self)

\* CharacterTablePosition::into_position
into_position(self) == IF self \in {"Melee", "Ranged"} THEN Some(self) ELSE None

\* NonZeroU8::new(self.rarity + 1).unwrap(): the sum overflows a u8 at 255,
\* which panics where overflow is checked and is 0, which new refuses,
\* where it wraps.
RarityCap == 256

into_rarity(rarity) ==
  IF rarity + 1 >= RarityCap \/ (rarity + 1) % RarityCap = 0
  THEN Panics
  ELSE Returns(rarity + 1)

\* What into_operator leaves behind when it returns before it has touched
\* the tables.
Untouched(value, handbook_info_table, equip_table) ==
  [panicked |-> FALSE, value |-> value,
   handbook_info_table |-> handbook_info_table, equip_table |-> equip_table]

Panicked(handbook_info_table, equip_table) ==
  [panicked |-> TRUE, value |-> None,
   handbook_info_table |-> handbook_info_table, equip_table |-> equip_table]

\* The Operator of an entry whose fields, skills and talents have resolved:
\* None if the handbook has no file for it, a panic if its base skills or
\* its rarity panic.
Operator(self, id, skills, talents, modules, base_skills, file, rarity) ==
  IF base_skills.panicked THEN Panicked(file.handbook_info_table, modules.equip_table)
  ELSE IF ~IsSome(file.value)
       THEN Untouched(None, file.handbook_info_table, modules.equip_table)
  ELSE IF rarity.panicked THEN Panicked(file.handbook_info_table, modules.equip_table)
  ELSE Untouched(
         Some([id             |-> id,
               name           |-> self.name,
               display_number |-> Unwrap(self.display_number),
               position       |-> Unwrap(into_position(self.position)),
               rarity         |-> rarity.value,
               profession     |-> Unwrap(into_profession(self.profession)),
               sub_profession |-> Unwrap(into_sub_profession(self.sub_profession)),
               promotions     |-> Unwrap(into_operator_promotions(self.phases)),
               skills         |-> skills,
               talents        |-> talents,
               modules        |-> IF IsSome(modules.value) THEN Unwrap(modules.value) ELSE <<>>,
               base_skills    |-> base_skills.value,
               trust_bonus    |-> into_trust_bonus(self.favor_key_frames),
               file           |-> Unwrap(file.value)]),
         file.handbook_info_table, modules.equip_table)

\* into_operator from the talents on: a talent that does not resolve drops
\* the entry before the tables are touched; then the modules are taken from
\* equip_table, the base skills read from building_data and the file taken
\* from handbook_info_table.
into_operator_with_talents(self, id, building_data, handbook_info_table, equip_table, skills, talents) ==
  IF talents.panicked THEN Panicked(handbook_info_table, equip_table)
  ELSE IF ~IsSome(talents.value) THEN Untouched(None, handbook_info_table, equip_table)
  ELSE Operator(self, id, skills, Unwrap(talents.value),
                take_operator_modules(equip_table, id),
                get_operator_base_skill(building_data, id),
                take_operator_file(handbook_info_table, id),
                into_rarity(self.rarity))

\* into_operator from the skills on: a skill that does not resolve drops the
\* entry.
into_operator_with_skills(self, id, building_data, handbook_info_table, equip_table, skills) ==
  IF skills.panicked THEN Panicked(handbook_info_table, equip_table)
  ELSE IF ~IsSome(skills.value) THEN Untouched(None, handbook_info_table, equip_table)
  ELSE into_operator_with_talents(
         self, id, building_data, handbook_info_table, equip_table, Unwrap(skills.value),
         recollect_maybe([i \in DOMAIN self.talents |-> into_operator_talent(self.talents[i])]))

\* CharacterTableEntry::into_operator, in the order of the source: the
\* fields of the entry, the first promotion, the skills, the talents, the
\* modules, the base skills and the file.
into_operator(self, id, building_data, skill_table, handbook_info_table, equip_table, assertions_) ==
  IF self.is_unobtainable THEN Untouched(None, handbook_info_table, equip_table)
  ELSE IF \/ ~IsSome(self.display_number)
          \/ ~IsSome(into_profession(self.profession))
          \/ ~IsSome(into_sub_profession(self.sub_profession))
          \/ ~IsSome(into_position(self.position))
          \/ ~IsSome(into_operator_promotions(self.phases))
       THEN Untouched(None, handbook_info_table, equip_table)
  ELSE into_operator_with_skills(
         self, id, building_data, handbook_info_table, equip_table,
         recollect_maybe([i \in DOMAIN self.skills |->
           into_operator_skill(self.skills[i], skill_table, assertions_)]))

\* One turn of the closure that into_game_data hands to recollect_filter:
\* the next entry of the character table (a HashMap: any of those left) is
\* converted, and kept under its ID if it resolved.  A panic ends the load.
IntoOperator ==
  /\ call.op = "into_game_data"
  /\ ret = Pending
  /\ \E id \in DOMAIN data_files.character_table :
       \E operator_ \in { into_operator(data_files.character_table[id], id,
                                        data_files.building_data, data_files.skill_table,
                                        data_files.handbook_info_table,
                                        data_files.equip_table, assertions) } :
          IF operator_.panicked
          THEN /\ ret' = Some(Panics)
               /\ UNCHANGED <<data_files, game_data>>
          ELSE /\ data_files' = [data_files EXCEPT
                                   !.character_table     = MapRemove(@, id),
                                   !.handbook_info_table = operator_.handbook_info_table,
                                   !.equip_table         = operator_.equip_table]
               /\ game_data' = IF IsSome(operator_.value)
                               THEN [game_data EXCEPT
                                       !.operators = MapInsert(@, id, Unwrap(operator_.value))]
                               ELSE game_data
               /\ ret' = ret
  /\ UNCHANGED <<operator, text, blackboard, assertions, call>>

\* into_game_data returns the GameData once the character table is used up.
IntoGameData ==
  /\ call.op = "into_game_data"
  /\ ret = Pending
  /\ DOMAIN data_files.character_table = {}
  /\ ret' = Some(Returns(game_data))
  /\ UNCHANGED <<operator, text, blackboard, assertions, call, data_files, game_data>>

\* The load is over and has returned the GameData.
Loaded == ret # Pending /\ ~Unwrap(ret).panicked

\* The operators of the GameData so far.
Operators == game_data.operators

Resolved(id) == id \in DOMAIN Operators

\* The entry of the character table that the load was given under an ID.
RawCharacter(id) == call.files.character_table[id]

\* The entry has been through into_operator.
Processed(id) == id \notin DOMAIN data_files.character_table

(***************************************************************************)
(* Raw records for the assembly.                                           *)
(***************************************************************************)

CharCondition(phase, level) == [phase |-> phase, level |-> level]

\* A skill-table level whose description needs no blackboard.
SkillTableLevel(name, skill_type, sp_type) ==
  [name |-> name, description |-> None, skill_type |-> skill_type, sp_type |-> sp_type,
   duration |-> F32Zero(FALSE), blackboard |-> <<>>]

CharacterTableSkill(id, mastery_upgrades) ==
  [id |-> id, override_prefab_key |-> None, mastery_upgrades |-> mastery_upgrades,
   unlock_condition |-> CharCondition(0, 1)]

CharacterTableSkillMastery ==
  [unlock_condition |-> CharCondition(2, 1), level_up_time |-> 28800]

CharacterTableTalentCandidate(name, description, unlock_condition) ==
  [unlock_condition |-> unlock_condition, required_potential_rank |-> 0,
   name |-> name, description |-> description]

EquipTableEquip(id, mission_list) ==
  [id |-> id, unlock_phase |-> PromotionElite2, unlock_level |-> 40,
   mission_list |-> mission_list]

EquipTable(equip_list, mission_list, character_equip_list) ==
  [equip_list |-> equip_list, mission_list |-> mission_list,
   character_equip_list |-> character_equip_list]

HandbookInfoTableEntry(char_id) == [char_id |-> char_id, illustrator_name |-> "artist"]

BuildingDataBuff(name) == [name |-> name, sort |-> 1]

BuildingDataCharBuffPhase(id, condition) == [id |-> id, condition |-> condition]

\* An entry that resolves when its skills, talents and file do.
CharacterTableEntry(skills, talents, rarity) ==
  [name             |-> "name",
   display_number   |-> Some("R001"),
   position         |-> "Melee",
   is_unobtainable  |-> FALSE,
   rarity           |-> rarity,
   profession       |-> "Guard",
   sub_profession   |-> "Lord",
   phases           |-> << CHOOSE p \in PhaseSet({1}, 1, {0}, {0}, {0}, {0}) : TRUE >>,
   skills           |-> skills,
   talents          |-> talents,
   favor_key_frames |-> None]

DataFiles(character_table, building_data, skill_table, handbook_info_table, equip_table) ==
  [character_table     |-> character_table,
   building_data       |-> building_data,
   skill_table         |-> skill_table,
   handbook_info_table |-> [handbook_dict |-> handbook_info_table],
   equip_table         |-> equip_table]

NoEquipTable == EquipTable(EmptyMap, EmptyMap, EmptyMap)

NoBuildingData == [chars |-> EmptyMap, buffs |-> EmptyMap]

\* A map of one key, and the union of two maps of distinct keys.
One(key, value) == [k \in {key} |-> value]

Both(m1, m2) == [k \in DOMAIN m1 \cup DOMAIN m2 |-> IF k \in DOMAIN m1 THEN m1[k] ELSE m2[k]]

\* The state in which into_game_data has been called on the files.
Called(files) ==
  /\ operator = IdleOperator
  /\ text = IdleText
  /\ blackboard = IdleBlackboard
  /\ call = [op |-> "into_game_data", files |-> files]
  /\ ret = Pending
  /\ data_files = files
  /\ game_data = [operators |-> EmptyMap]

(***************************************************************************)
(* SpecModules: one character whose equipment list, equipment records and  *)
(* missions are drawn from small sets; each record carries its own ID.     *)
(***************************************************************************)

MaxSlots == 3

EquipIds == {"e0", "e1", "e2"}

MissionIds == {"m1", "m2"}

EquipLists == UNION { [1..n -> EquipIds] : n \in 0..MaxSlots }

MissionLists == {<<>>} \cup { <<m>> : m \in MissionIds }

EquipDicts ==
  UNION { { [e \in present |-> EquipTableEquip(e, missions[e])] :
            missions \in [present -> MissionLists] } : present \in SUBSET EquipIds }

MissionTables == { [m \in present |-> "mission"] : present \in SUBSET MissionIds }

ModuleFiles ==
  { DataFiles(One("c1", CharacterTableEntry(<<>>, <<>>, 5)), NoBuildingData, EmptyMap,
              handbook, EquipTable(equip_list, mission_list, character_equip_list)) :
      handbook \in {EmptyMap, One("c1", HandbookInfoTableEntry("c1"))},
      equip_list \in EquipDicts,
      mission_list \in MissionTables,
      character_equip_list \in {EmptyMap} \cup { One("c1", list) : list \in EquipLists } }

InitModules ==
  /\ assertions = FALSE
  /\ \E files \in ModuleFiles : Called(files)

NextModules == IntoOperator \/ IntoGameData

SpecModules == InitModules /\ [][NextModules]_vars

\* The equipment table the load was given, and the list of a character.
RawEquipTable == call.files.equip_table

HasEquipList(id) == id \in DOMAIN RawEquipTable.character_equip_list

RawEquipList(id) == RawEquipTable.character_equip_list[id]

\* The module of the record that a slot of the list names, if it has one.
ModuleOfSlot(id, i) ==
  IF RawEquipList(id)[i] \in DOMAIN RawEquipTable.equip_list
  THEN into_operator_module(RawEquipTable.equip_list[RawEquipList(id)[i]],
                            RawEquipTable.mission_list)
  ELSE None

\* C12: for every content of the equipment list of a resolved operator, the
\* record that slot 0 of the list names is not among the operator's modules,
\* and the modules are the records of the slots after slot 0, in order.
C12_SlotZeroSkipped ==
  \A id \in DOMAIN Operators :
    HasEquipList(id) /\ RawEquipList(id) # <<>> =>
      /\ \A i \in DOMAIN Operators[id].modules :
           Operators[id].modules[i].id # RawEquipList(id)[1]
      /\ Len(Operators[id].modules) = Len(RawEquipList(id)) - 1
      /\ \A i \in DOMAIN Operators[id].modules :
           Some(Operators[id].modules[i]) = ModuleOfSlot(id, i + 1)

\* An operator resolved from a list whose slot 0 is named again later.
C12_Witness ==
  /\ Resolved("c1")
  /\ HasEquipList("c1")
  /\ RawEquipList("c1") = <<"e0", "e0">>
  /\ Len(Operators["c1"].modules) = 1

\* A slot after slot 0 names no record, or a record with a mission that the
\* mission table does not have.
Unresolvable(id) ==
  /\ HasEquipList(id)
  /\ \E i \in 2..Len(RawEquipList(id)) : ~IsSome(ModuleOfSlot(id, i))

\* The operator that the entry resolves to when there is no equipment at all.
WithoutEquipment(id) ==
  into_operator(RawCharacter(id), id, call.files.building_data, call.files.skill_table,
                call.files.handbook_info_table, NoEquipTable, assertions).value

\* C19: when a slot after slot 0 of a character's list names a mission that
\* is not in the mission table or a record that is not in the equipment
\* table, the character is resolved exactly when it is resolved without any
\* equipment, with no modules and with every other field as it is then.
C19_ModuleListDropped ==
  \A id \in DOMAIN call.files.character_table :
    Processed(id) /\ Unresolvable(id) =>
      /\ Resolved(id) <=> IsSome(WithoutEquipment(id))
      /\ Resolved(id) => /\ Operators[id].modules = <<>>
                         /\ Operators[id] = Unwrap(WithoutEquipment(id))

\* A resolved operator that lost its modules: slot 1 resolves, slot 2 names a
\* mission that the table does not have.
C19_Witness ==
  /\ Loaded
  /\ Resolved("c1")
  /\ Unresolvable("c1")
  /\ Len(RawEquipList("c1")) = 3
  /\ IsSome(ModuleOfSlot("c1", 2))
  /\ RawEquipList("c1")[3] \in DOMAIN RawEquipTable.equip_list
  /\ Operators["c1"].modules = <<>>

(***************************************************************************)
(* SpecSkills: one character with one or two skills.  The table of skill   *)
(* "s1" has between six and MaxSkillLevels levels, all alike or with one   *)
(* level that differs in its name, its skill type or its SP type; the      *)
(* table of skill "s2" has seven levels, all alike.                        *)
(***************************************************************************)

MaxSkillLevels == 11

UniformLevel == SkillTableLevel("skill", 1, 1)

\* The level that differs from the others in one field.
DeviantLevel(field) ==
  CASE field = "name"       -> SkillTableLevel("other", 1, 1)
    [] field = "skill_type" -> SkillTableLevel("skill", 2, 1)
    [] field = "sp_type"    -> SkillTableLevel("skill", 1, 4)

SkillTableEntries ==
  { [levels |-> [i \in 1..n |-> UniformLevel]] : n \in (BaseLevels - 1)..MaxSkillLevels }
  \cup
  { [levels |-> [i \in 1..n |-> IF i = d THEN DeviantLevel(field) ELSE UniformLevel]] :
      n \in (BaseLevels - 1)..MaxSkillLevels, d \in 1..MaxSkillLevels,
      field \in {"name", "skill_type", "sp_type"} }

MasteryUpgrades == {None, Some([i \in 1..MasteryLevels |-> CharacterTableSkillMastery])}

SkillLists ==
  { <<CharacterTableSkill(Some("s1"), m)>> : m \in MasteryUpgrades }
  \cup { <<CharacterTableSkill(Some("s1"), m), CharacterTableSkill(Some("s2"), None)>> :
           m \in MasteryUpgrades }
  \cup { <<CharacterTableSkill(Some("s2"), None), CharacterTableSkill(id, m)>> :
           id \in {None, Some("s1"), Some("s3")}, m \in MasteryUpgrades }

SkillFiles ==
  { DataFiles(One("c1", CharacterTableEntry(skills, <<>>, 5)), NoBuildingData,
              Both(One("s1", entry), One("s2", [levels |-> [i \in 1..BaseLevels |-> UniformLevel]])),
              One("c1", HandbookInfoTableEntry("c1")), NoEquipTable) :
      skills \in SkillLists, entry \in SkillTableEntries }

InitSkills ==
  /\ assertions \in BOOLEAN
  /\ \E files \in SkillFiles : Called(files)

NextSkills == IntoOperator \/ IntoGameData

SpecSkills == InitSkills /\ [][NextSkills]_vars

\* The skills of the entry that name a skill, and the levels the skill table
\* has for a skill that it knows.
RawSkills(id) == RawCharacter(id).skills

IsKnownSkill(skill) ==
  IsSome(skill.id) /\ Unwrap(skill.id) \in DOMAIN call.files.skill_table

RawLevels(skill) == call.files.skill_table[Unwrap(skill.id)].levels

\* C15: an operator is resolved only if each of its skills has a level table
\* of exactly 7 levels, or of exactly 7 and 3 more.
C15_LevelCountRule ==
  \A id \in DOMAIN Operators :
    \A k \in DOMAIN RawSkills(id) :
      /\ IsKnownSkill(RawSkills(id)[k])
      /\ Len(RawLevels(RawSkills(id)[k])) \in {BaseLevels, BaseLevels + MasteryLevels}

\* An operator resolved with a skill of eight levels, and one dropped for a
\* skill of six.
C15_Witness ==
  /\ Resolved("c1")
  /\ Len(RawSkills("c1")) = 1
  /\ Len(RawLevels(RawSkills("c1")[1])) = BaseLevels + 1
  /\ Len(Operators["c1"].skills[1].levels) = BaseLevels
  /\ Operators["c1"].skills[1].mastery = None

\* A skill of fewer than seven levels drops the operator.
ShortSkillDropsOperator ==
  \A id \in DOMAIN call.files.character_table :
    (\E k \in DOMAIN RawSkills(id) :
       IsKnownSkill(RawSkills(id)[k]) /\ Len(RawLevels(RawSkills(id)[k])) < BaseLevels)
    => ~Resolved(id)

\* Two of the seven base levels of the skill differ in activation or recovery.
BaseLevelsDiffer(skill) ==
  \E i, j \in 1..BaseLevels :
    /\ i \in DOMAIN RawLevels(skill) /\ j \in DOMAIN RawLevels(skill)
    /\ \/ into_activation(RawLevels(skill)[i].skill_type)
            # into_activation(RawLevels(skill)[j].skill_type)
       \/ into_recovery(RawLevels(skill)[i].sp_type)
            # into_recovery(RawLevels(skill)[j].sp_type)

\* C16: the activation and the recovery of a skill of a resolved operator are
\* those of each of the skill's seven base levels, and an operator with a
\* skill whose base levels differ in either is not resolved.
C16_MetadataNormalized ==
  \A id \in DOMAIN call.files.character_table :
    /\ Resolved(id) =>
         \A k \in DOMAIN Operators[id].skills : \A i \in 1..BaseLevels :
           /\ Operators[id].skills[k].activation
                = into_activation(RawLevels(RawSkills(id)[k])[i].skill_type)
           /\ Operators[id].skills[k].recovery
                = into_recovery(RawLevels(RawSkills(id)[k])[i].sp_type)
    /\ (\E k \in DOMAIN RawSkills(id) :
          IsKnownSkill(RawSkills(id)[k]) /\ BaseLevelsDiffer(RawSkills(id)[k]))
       => ~Resolved(id)

\* The load is over, and the operator whose second skill has a base level of
\* another recovery was dropped.
C16_Witness ==
  /\ Loaded
  /\ ~Resolved("c1")
  /\ Len(RawSkills("c1")) = 2
  /\ IsKnownSkill(RawSkills("c1")[2])
  /\ Len(RawLevels(RawSkills("c1")[2])) = BaseLevels
  /\ RawLevels(RawSkills("c1")[2])[BaseLevels].sp_type # RawLevels(RawSkills("c1")[2])[1].sp_type

\* A resolved operator whose skill has ten levels and three masteries.
MasteryResolved ==
  /\ Resolved("c1")
  /\ IsSome(Operators["c1"].skills[1].mastery)

(***************************************************************************)
(* SpecTalents: one character with up to two talents.  A candidate has a   *)
(* name or none, a description (plain or with a tag) or none, and an       *)
(* unlock condition whose phase is a promotion or is not.                  *)
(***************************************************************************)

MaxTalentPhases == 2

PlainDescription == <<"h", "p">>

TaggedDescription == <<"<", "b", ">", "h", "p", "<", "/", ">">>

TalentCandidates ==
  { CharacterTableTalentCandidate(Some("talent"), Some(PlainDescription), CharCondition(0, 1)),
    CharacterTableTalentCandidate(Some("talent"), Some(TaggedDescription), CharCondition(2, 1)),
    CharacterTableTalentCandidate(None, Some(TaggedDescription), CharCondition(0, 1)),
    CharacterTableTalentCandidate(Some("talent"), None, CharCondition(1, 1)),
    CharacterTableTalentCandidate(None, None, CharCondition(0, 1)),
    CharacterTableTalentCandidate(Some("talent"), Some(PlainDescription), CharCondition(3, 1)) }

CharacterTableTalent(phases) == [phases |-> phases]

Talents ==
  { CharacterTableTalent(phases) :
      phases \in UNION { [1..n -> TalentCandidates] : n \in 0..MaxTalentPhases } }

ShortTalents ==
  { CharacterTableTalent(phases) :
      phases \in UNION { [1..n -> TalentCandidates] : n \in 0..1 } }

TalentLists ==
  {<<>>} \cup { <<t>> : t \in Talents }
         \cup { <<t, u>> : t \in Talents, u \in ShortTalents }
         \cup { <<u, t>> : t \in Talents, u \in ShortTalents }

TalentFiles ==
  { DataFiles(One("c1", CharacterTableEntry(<<>>, talents, 5)), NoBuildingData, EmptyMap,
              One("c1", HandbookInfoTableEntry("c1")), NoEquipTable) :
      talents \in TalentLists }

InitTalents ==
  /\ assertions \in BOOLEAN
  /\ \E files \in TalentFiles : Called(files)

NextTalents == IntoOperator \/ IntoGameData

SpecTalents == InitTalents /\ [][NextTalents]_vars

RawTalents(id) == RawCharacter(id).talents

\* A candidate of a talent of the entry has no name or no description.
LacksNameOrDescription(id) ==
  \E k \in DOMAIN RawTalents(id) : \E i \in DOMAIN RawTalents(id)[k].phases :
    \/ ~IsSome(RawTalents(id)[k].phases[i].name)
    \/ ~IsSome(RawTalents(id)[k].phases[i].description)

\* The talents of the operator are the talents of the entry, candidate for
\* phase, in order, each with its name and its description without tags.
EveryPhaseResolved(id) ==
  /\ Len(Operators[id].talents) = Len(RawTalents(id))
  /\ \A k \in DOMAIN RawTalents(id) :
       /\ Len(Operators[id].talents[k].phases) = Len(RawTalents(id)[k].phases)
       /\ \A i \in DOMAIN RawTalents(id)[k].phases :
            /\ Operators[id].talents[k].phases[i].name
                 = Unwrap(RawTalents(id)[k].phases[i].name)
            /\ Operators[id].talents[k].phases[i].description
                 = strip_tags(Unwrap(RawTalents(id)[k].phases[i].description))

\* C17: an entry with a talent candidate that has no name or no description
\* is never resolved; an entry without such a candidate (whose other fields
\* resolve) is resolved once the load has returned, and a resolved operator
\* has every candidate of every talent as a phase, in order, with the
\* description stripped of its tags.
C17_TalentsAllOrNothing ==
  \A id \in DOMAIN call.files.character_table :
    /\ LacksNameOrDescription(id) => ~Resolved(id)
    /\ Loaded /\ ~LacksNameOrDescription(id) => Resolved(id)
    /\ Resolved(id) => EveryPhaseResolved(id)

\* The load is over; the operator has two talents, one of them of two phases,
\* and a description that had a tag.
C17_Witness ==
  /\ Loaded
  /\ Resolved("c1")
  /\ Len(Operators["c1"].talents) = 2
  /\ Len(Operators["c1"].talents[1].phases) = 2
  /\ RawTalents("c1")[1].phases[2].description = Some(TaggedDescription)
  /\ Operators["c1"].talents[1].phases[2].description = PlainDescription

\* The load is over and the entry whose second talent lacks a name was
\* dropped, although its first talent resolves.
TalentDropsOperator ==
  /\ Loaded
  /\ ~Resolved("c1")
  /\ Len(RawTalents("c1")) = 2
  /\ IsSome(into_operator_talent(RawTalents("c1")[1]).value)

\* C18: every talent of every resolved operator has at least one phase.
C18_TalentPhasesNonEmpty ==
  \A id \in DOMAIN Operators :
    \A k \in DOMAIN Operators[id].talents : Operators[id].talents[k].phases # <<>>

\* An operator resolved with a talent of no phases, from a talent of no
\* candidates.
C18_Witness ==
  /\ Resolved("c1")
  /\ Len(RawTalents("c1")) = 1
  /\ RawTalents("c1")[1].phases = <<>>
  /\ Operators["c1"].talents[1].phases = <<>>

(***************************************************************************)
(* SpecAssembly: two characters whose equipment lists are drawn over the   *)
(* same two records, so that both may name the same one.  Every record of  *)
(* the equipment table and of the handbook carries its own key.            *)
(***************************************************************************)

MaxSharedSlots == 2

SharedEquipIds == {"e0", "e1"}

SharedEquipLists == UNION { [1..n -> SharedEquipIds] : n \in 0..MaxSharedSlots }

SharedEquipDicts ==
  UNION { { [e \in present |-> EquipTableEquip(e, missions[e])] :
            missions \in [present -> {<<>>, <<"m1">>}] } : present \in SUBSET SharedEquipIds }

CharacterIds == {"c1", "c2"}

CharacterEquipLists ==
  UNION { [with_list -> SharedEquipLists] : with_list \in SUBSET CharacterIds }

AssemblyFiles ==
  { DataFiles([id \in CharacterIds |-> CharacterTableEntry(<<>>, <<>>, 5)], NoBuildingData,
              EmptyMap, [id \in with_file |-> HandbookInfoTableEntry(id)],
              EquipTable(equip_list, mission_list, character_equip_list)) :
      with_file \in SUBSET CharacterIds,
      equip_list \in SharedEquipDicts,
      mission_list \in {EmptyMap, One("m1", "mission")},
      character_equip_list \in CharacterEquipLists }

InitAssembly ==
  /\ assertions = FALSE
  /\ \E files \in AssemblyFiles : Called(files)

NextAssembly == IntoOperator \/ IntoGameData

SpecAssembly == InitAssembly /\ [][NextAssembly]_vars

\* The keys of the equipment records and of the handbook entry that are
\* attached to a resolved operator.
AttachedEquip(id) == { Operators[id].modules[i].id : i \in DOMAIN Operators[id].modules }

AttachedFile(id) == Operators[id].file.id

\* C13: once into_game_data has been through every entry, in whatever order,
\* no equipment record and no handbook entry is attached to two resolved
\* operators, and none that is attached to a resolved operator is still in
\* its table.
C13_DrainInvariant ==
  Loaded =>
    /\ \A id1, id2 \in DOMAIN Operators :
         id1 # id2 => /\ AttachedEquip(id1) \cap AttachedEquip(id2) = {}
                      /\ AttachedFile(id1) # AttachedFile(id2)
    /\ \A id \in DOMAIN Operators :
         /\ AttachedEquip(id) \cap DOMAIN data_files.equip_table.equip_list = {}
         /\ AttachedFile(id) \notin DOMAIN data_files.handbook_info_table.handbook_dict

\* Both operators are resolved from lists that name the same record after
\* slot 0; the record is attached to one of them and the other has no
\* modules.
C13_Witness ==
  /\ Loaded
  /\ Resolved("c1") /\ Resolved("c2")
  /\ HasEquipList("c1") /\ HasEquipList("c2")
  /\ RawEquipList("c1") = <<"e0", "e1">>
  /\ RawEquipList("c2") = <<"e0", "e1">>
  /\ \E id \in CharacterIds :
       /\ AttachedEquip(id) = {"e1"}
       /\ \A other \in CharacterIds \ {id} : AttachedEquip(other) = {}

\* The same holds after every single entry, not only at the end.
DrainedAfterEveryEntry ==
  \A id \in DOMAIN Operators :
    /\ AttachedEquip(id) \cap DOMAIN data_files.equip_table.equip_list = {}
    /\ AttachedFile(id) \notin DOMAIN data_files.handbook_info_table.handbook_dict

(***************************************************************************)
(* SpecBuildings: two characters with base skills drawn over the same two  *)
(* buffs, of which the buff table has the first and may have the second.   *)
(* Rarities, talent conditions and buff conditions take values in and out  *)
(* of the range the conversions accept.                                    *)
(***************************************************************************)

BuffIds == {"b1", "b2"}

BuildingDataCharBuff(phases) == [phases |-> phases]

BuildingDataChar(buffs) == [buffs |-> buffs]

\* The base skills of a character: none, one without phases, or one of one
\* phase naming either buff, with a condition of promotion 0 or of phase 3.
BuildingDataChars ==
  { BuildingDataChar(<<>>), BuildingDataChar(<<BuildingDataCharBuff(<<>>)>>) }
  \cup
  { BuildingDataChar(<<BuildingDataCharBuff(<<BuildingDataCharBuffPhase(b, CharCondition(phase, 1))>>)>>) :
      b \in BuffIds, phase \in {0, 3} }

BuildingDatas ==
  { [chars |-> chars, buffs |-> [b \in present |-> BuildingDataBuff(b)]] :
      chars \in UNION { [with_chars -> BuildingDataChars] : with_chars \in SUBSET CharacterIds },
      present \in {{"b1"}, BuffIds} }

Rarities == {5, 255}

BuildingTalents ==
  { <<>>,
    <<CharacterTableTalent(<<CharacterTableTalentCandidate(
        Some("talent"), Some(PlainDescription), CharCondition(3, 1))>>)>> }

BuildingFiles ==
  { DataFiles([id \in CharacterIds |->
                 CharacterTableEntry(<<>>, IF id = "c1" THEN talents ELSE <<>>,
                                     IF id = "c2" THEN rarity ELSE 5)],
              building_data, EmptyMap,
              [id \in CharacterIds |-> HandbookInfoTableEntry(id)], NoEquipTable) :
      talents \in BuildingTalents, rarity \in Rarities, building_data \in BuildingDatas }

InitBuildings ==
  /\ assertions = FALSE
  /\ \E files \in BuildingFiles : Called(files)

NextBuildings == IntoOperator \/ IntoGameData

SpecBuildings == InitBuildings /\ [][NextBuildings]_vars

\* The phases of the base skills of a character, and the IDs of the buffs
\* that they are built from.
RawBuffPhases(id) ==
  IF id \notin DOMAIN call.files.building_data.chars THEN {}
  ELSE LET buffs == call.files.building_data.chars[id].buffs
       IN UNION { { buffs[k].phases[i] : i \in DOMAIN buffs[k].phases } : k \in DOMAIN buffs }

BuffsOf(id) == { phase.id : phase \in RawBuffPhases(id) }

\* C14: no two resolved operators have a base-skill phase built from the same
\* buff, and a buff that a resolved operator's base skills are built from is
\* no longer in the buff table.
C14_BuffUsedOnce ==
  /\ \A id1, id2 \in DOMAIN Operators :
       id1 # id2 => BuffsOf(id1) \cap BuffsOf(id2) = {}
  /\ \A id \in DOMAIN Operators :
       BuffsOf(id) \cap DOMAIN data_files.building_data.buffs = {}

\* Both operators are resolved, each with a base-skill phase built from the
\* buff "b1", which is still in the buff table.
C14_Witness ==
  /\ Loaded
  /\ Resolved("c1") /\ Resolved("c2")
  /\ BuffsOf("c1") = {"b1"} /\ BuffsOf("c2") = {"b1"}
  /\ Operators["c1"].base_skills[1].phases[1].name = "b1"
  /\ Operators["c2"].base_skills[1].phases[1].name = "b1"
  /\ "b1" \in DOMAIN data_files.building_data.buffs

\* C20: into_game_data never panics: whatever the records refer to and
\* whatever values they hold, the load returns a GameData.
C20_NeverPanics == ret # Pending => ~Unwrap(ret).panicked

\* The load panicked on a character whose base skill names a buff that the
\* buff table does not have, with every promotion phase and rarity in range.
C20_Witness ==
  /\ ret # Pending
  /\ Unwrap(ret).panicked
  /\ \A id \in CharacterIds :
       /\ RawCharacter(id).rarity = 5
       /\ RawTalents(id) = <<>>
       /\ \A phase \in RawBuffPhases(id) : phase.condition.phase \in Promotion
  /\ \E id \in CharacterIds : "b2" \in BuffsOf(id)
  /\ "b2" \notin DOMAIN call.files.building_data.buffs

\* The load panicked on a rarity of 255 alone, and on a talent's unlock
\* condition of phase 3 alone.
RarityPanics ==
  /\ ret # Pending /\ Unwrap(ret).panicked
  /\ RawCharacter("c2").rarity = 255
  /\ RawTalents("c1") = <<>>
  /\ DOMAIN call.files.building_data.chars = {}

ConditionPanics ==
  /\ ret # Pending /\ Unwrap(ret).panicked
  /\ RawCharacter("c2").rarity = 5
  /\ RawTalents("c1") # <<>>
  /\ DOMAIN call.files.building_data.chars = {}

(***************************************************************************)
(* SpecLadder: one character with no phase or up to MaxTiers phases, each  *)
(* one of three that differ in their highest level.                        *)
(***************************************************************************)

MaxTiers == 4

TierChoices ==
  { CHOOSE p \in PhaseSet({1}, hi, {0}, {0}, {0}, {0}) : p.max_level = hi : hi \in {30, 40, 50} }

Ladders == UNION { [1..n -> TierChoices] : n \in 0..MaxTiers }

LadderFiles ==
  { DataFiles(One("c1", [CharacterTableEntry(<<>>, <<>>, 5) EXCEPT !.phases = phases]),
              NoBuildingData, EmptyMap, handbook, NoEquipTable) :
      phases \in Ladders,
      handbook \in {EmptyMap, One("c1", HandbookInfoTableEntry("c1"))} }

InitLadder ==
  /\ assertions = FALSE
  /\ \E files \in LadderFiles : Called(files)

NextLadder == IntoOperator \/ IntoGameData

SpecLadder == InitLadder /\ [][NextLadder]_vars

RawPhases(id) == RawCharacter(id).phases

\* The promotion that the entry has at a place of its phases, if it has one.
TierAt(id, i) ==
  IF i <= Len(RawPhases(id)) THEN Some(into_operator_promotion(RawPhases(id)[i])) ELSE None

\* C24: an entry without phases is never resolved; a resolved operator has
\* its base promotion, which is the first phase of the entry, its elite 1 and
\* elite 2 are the second and the third phase when the entry has them, and
\* it has no elite 2 without an elite 1.
C24_LadderShape ==
  \A id \in DOMAIN call.files.character_table :
    /\ RawPhases(id) = <<>> => ~Resolved(id)
    /\ Resolved(id) =>
         /\ Some(Operators[id].promotions.none) = TierAt(id, 1)
         /\ Operators[id].promotions.elite1 = TierAt(id, 2)
         /\ Operators[id].promotions.elite2 = TierAt(id, 3)
         /\ IsSome(Operators[id].promotions.elite2) => IsSome(Operators[id].promotions.elite1)

\* An operator resolved from two different phases: it has them as base and
\* elite 1, in that order, and no elite 2.
C24_Witness ==
  /\ Loaded
  /\ Resolved("c1")
  /\ Len(RawPhases("c1")) = 2
  /\ RawPhases("c1")[1].max_level = 30
  /\ RawPhases("c1")[2].max_level = 50
  /\ Operators["c1"].promotions.none.max_level = 30
  /\ Unwrap(Operators["c1"].promotions.elite1).max_level = 50
  /\ Operators["c1"].promotions.elite2 = None

\* The load is over and the entry without phases, which has a file, was
\* dropped.
EmptyLadderDropped ==
  /\ Loaded
  /\ RawPhases("c1") = <<>>
  /\ "c1" \in DOMAIN call.files.handbook_info_table.handbook_dict
  /\ ~Resolved("c1")

\* The IDs of the missions attached to a module.
MissionsOf(module) == { module.missions[i][1] : i \in DOMAIN module.missions }

\* C26: a mission attached to a module of a resolved operator is no longer in
\* the mission table, and no mission is attached to two modules, of one
\* operator or of two.
C26_MissionsDrained ==
  /\ \A id \in DOMAIN Operators : \A i \in DOMAIN Operators[id].modules :
       MissionsOf(Operators[id].modules[i])
         \cap DOMAIN data_files.equip_table.mission_list = {}
  /\ \A id1, id2 \in DOMAIN Operators :
       \A i \in DOMAIN Operators[id1].modules : \A j \in DOMAIN Operators[id2].modules :
         (id1 # id2 \/ i # j)
         => MissionsOf(Operators[id1].modules[i]) \cap MissionsOf(Operators[id2].modules[j]) = {}

\* The operator is resolved with two modules that both have the mission
\* "m1", which is still in the mission table.
C26_Witness ==
  /\ Loaded
  /\ Resolved("c1")
  /\ Len(Operators["c1"].modules) = 2
  /\ MissionsOf(Operators["c1"].modules[1]) = {"m1"}
  /\ MissionsOf(Operators["c1"].modules[2]) = {"m1"}
  /\ "m1" \in DOMAIN data_files.equip_table.mission_list

\* C28: when into_operator has returned no operator for an entry, the
\* equipment table and the handbook are as they were before the call, and
\* every record that is gone from the equipment records is attached to a
\* resolved operator.  (The entry is the only one of its character table.)
C28_DroppingConsumesNothing ==
  /\ \A id \in DOMAIN call.files.character_table :
       DOMAIN call.files.character_table = {id} /\ Processed(id) /\ ~Resolved(id)
       /\ (ret = Pending \/ ~Unwrap(ret).panicked)
       => /\ data_files.equip_table = call.files.equip_table
          /\ data_files.handbook_info_table = call.files.handbook_info_table
  /\ \A e \in DOMAIN call.files.equip_table.equip_list :
       e \notin DOMAIN data_files.equip_table.equip_list
       => \E id \in DOMAIN Operators : e \in AttachedEquip(id)

\* The entry was dropped for want of a handbook entry, and its equipment
\* list and the record "e1" that the list names are gone from the equipment
\* table.
C28_Witness ==
  /\ Loaded
  /\ ~Resolved("c1")
  /\ DOMAIN call.files.character_table = {"c1"}
  /\ DOMAIN call.files.handbook_info_table.handbook_dict = {}
  /\ HasEquipList("c1")
  /\ RawEquipList("c1") = <<"e0", "e1">>
  /\ "e1" \in DOMAIN call.files.equip_table.equip_list
  /\ "e1" \notin DOMAIN data_files.equip_table.equip_list
  /\ "c1" \notin DOMAIN data_files.equip_table.character_equip_list

(***************************************************************************)
(* The load in a given order of the character table.                       *)
(***************************************************************************)

\* What into_game_data has after the entries of order, one after the other,
\* starting from the files and the operators given.
RECURSIVE AssembleFrom(_, _, _, _)
AssembleFrom(order, files, operators, assertions_) ==
  IF order = <<>>
  THEN [panicked |-> FALSE, operators |-> operators,
        equip_table |-> files.equip_table, handbook_info_table |-> files.handbook_info_table]
  ELSE LET id == order[1]
           out == into_operator(files.character_table[id], id, files.building_data,
                                files.skill_table, files.handbook_info_table,
                                files.equip_table, assertions_)
       IN IF out.panicked
          THEN [panicked |-> TRUE, operators |-> operators,
                equip_table |-> files.equip_table,
                handbook_info_table |-> files.handbook_info_table]
          ELSE AssembleFrom(Tail(order),
                            [files EXCEPT !.handbook_info_table = out.handbook_info_table,
                                          !.equip_table = out.equip_table],
                            IF IsSome(out.value)
                            THEN MapInsert(operators, id, Unwrap(out.value))
                            ELSE operators,
                            assertions_)

\* The orders in which a character table of these IDs can be gone through.
OrdersOf(ids) ==
  { order \in [1..Cardinality(ids) -> ids] :
      \A i, j \in DOMAIN order : i # j => order[i] # order[j] }

\* No equipment ID is in the equipment lists of two characters.
DistinctSideRecords ==
  \A id1, id2 \in DOMAIN RawEquipTable.character_equip_list :
    id1 # id2 =>
      { RawEquipList(id1)[i] : i \in DOMAIN RawEquipList(id1) }
        \cap { RawEquipList(id2)[i] : i \in DOMAIN RawEquipList(id2) } = {}

\* C27: for files in which no equipment ID is in the lists of two
\* characters, the operators, the equipment table and the handbook that the
\* load ends with are those of going through the character table in any
\* order whatever.
C27_OrderIndependent ==
  Loaded /\ DistinctSideRecords =>
    \A order \in OrdersOf(DOMAIN call.files.character_table) :
      LET assembled == AssembleFrom(order, call.files, EmptyMap, assertions)
      IN /\ ~assembled.panicked
         /\ assembled.operators = Operators
         /\ assembled.equip_table = data_files.equip_table
         /\ assembled.handbook_info_table = data_files.handbook_info_table

\* Both operators are resolved, each with a module of its own.
C27_Witness ==
  /\ Loaded
  /\ DistinctSideRecords
  /\ Resolved("c1") /\ Resolved("c2")
  /\ AttachedEquip("c1") # {} /\ AttachedEquip("c2") # {}

\* With one record in the lists of both characters the order shows: the load
\* ended with the record attached to "c2", and attaches it to "c1" when it
\* starts with "c1".
OrderShowsOnSharedRecords ==
  /\ Loaded
  /\ Resolved("c1") /\ Resolved("c2")
  /\ AttachedEquip("c2") = {"e1"}
  /\ AssembleFrom(<<"c1", "c2">>, call.files, EmptyMap, assertions).operators # Operators

(***************************************************************************)
(* game_data.rs: the unlock predicates.                                    *)
(***************************************************************************)

\* OperatorSkill::is_unlocked
OperatorSkill_is_unlocked(self, promotion_and_level) ==
  PromotionAndLevelLe(self.condition, promotion_and_level)

\* OperatorSkillMastery::is_unlockable
OperatorSkillMastery_is_unlockable(self, promotion_and_level) ==
  PromotionAndLevelLe(self.condition, promotion_and_level)

\* A talent phase that asks for exactly its potential.
OperatorTalentPhase_is_unlocked_exact(self, promotion_and_level, potential) ==
  PromotionAndLevelLe(self.condition, promotion_and_level) /\ self.required_potential = potential

\* OperatorTalentPhase::is_unlocked
OperatorTalentPhase_is_unlocked(self, promotion_and_level, potential) ==
  PromotionAndLevelLe(self.condition, promotion_and_level) /\ self.required_potential <= potential

\* OperatorModule::is_unlockable
OperatorModule_is_unlockable(self, promotion_and_level, trust) ==
  PromotionAndLevelLe(self.condition, promotion_and_level) /\ self.required_trust <= trust

\* OperatorBaseSkillPhase::is_unlocked
OperatorBaseSkillPhase_is_unlocked(self, promotion_and_level) ==
  PromotionAndLevelLe(self.condition, promotion_and_level)

\* The variants of OperatorFileUnlock
AlwaysUnlocked == [variant |-> "AlwaysUnlocked"]

Trust(condition) == [variant |-> "Trust", trust |-> condition]

PromotionLevel(condition) == [variant |-> "PromotionLevel", promotion_and_level |-> condition]

OperatorUnlocked(id) == [variant |-> "OperatorUnlocked", id |-> id]

\* OperatorFileUnlock::test
OperatorFileUnlock_test(self, promotion_and_level, trust) ==
  CASE self.variant = "AlwaysUnlocked"   -> TRUE
    [] self.variant = "Trust"            -> self.trust <= trust
    [] self.variant = "PromotionLevel"   -> PromotionAndLevelLe(self.promotion_and_level, promotion_and_level)
    [] self.variant = "OperatorUnlocked" -> FALSE

\* OperatorFileEntry::is_unlocked
OperatorFileEntry_is_unlocked(self, promotion_and_level, trust) ==
  OperatorFileUnlock_test(self.unlock_condition, promotion_and_level, trust)

(***************************************************************************)
(* SpecUnlock: one object with an unlock condition, asked at two states    *)
(* of the player's operator.                                               *)
(***************************************************************************)

MaxUnlockLevel == 2

MaxAmount == 2

UnlockStates == { with_level(p, l) : p \in Promotion, l \in 1..MaxUnlockLevel }

Amounts == 0..MaxAmount

\* The objects that are asked, by the predicate that asks them.
UnlockObjects(op) ==
  CASE op \in {"OperatorSkill::is_unlocked", "OperatorSkillMastery::is_unlockable", "OperatorBaseSkillPhase::is_unlocked"} ->
         { [condition |-> c] : c \in UnlockStates }
    [] op = "OperatorTalentPhase::is_unlocked" ->
         { [condition |-> c, required_potential |-> n] : c \in UnlockStates, n \in Amounts }
    [] op = "OperatorModule::is_unlockable" ->
         { [condition |-> c, required_trust |-> n] : c \in UnlockStates, n \in Amounts }
    [] op = "OperatorFileEntry::is_unlocked" ->
         { [unlock_condition |-> u] :
             u \in {AlwaysUnlocked, OperatorUnlocked("char_002_amiya")}
                     \cup { Trust(n) : n \in Amounts }
                     \cup { PromotionLevel(c) : c \in UnlockStates } }

UnlockPredicates ==
  {"OperatorSkill::is_unlocked", "OperatorSkillMastery::is_unlockable",
   "OperatorTalentPhase::is_unlocked", "OperatorModule::is_unlockable",
   "OperatorBaseSkillPhase::is_unlocked", "OperatorFileEntry::is_unlocked"}

\* The answers at the two states.
Answers(first, second) == Some([first |-> first, second |-> second])

SkillIsUnlocked ==
  /\ call.op = "OperatorSkill::is_unlocked"
  /\ ret = Pending
  /\ ret' = Answers(OperatorSkill_is_unlocked(call.self, call.p),
                    OperatorSkill_is_unlocked(call.self, call.q))
  /\ UNCHANGED <<operator, text, blackboard, assertions, call, data_files, game_data>>

MasteryIsUnlockable ==
  /\ call.op = "OperatorSkillMastery::is_unlockable"
  /\ ret = Pending
  /\ ret' = Answers(OperatorSkillMastery_is_unlockable(call.self, call.p),
                    OperatorSkillMastery_is_unlockable(call.self, call.q))
  /\ UNCHANGED <<operator, text, blackboard, assertions, call, data_files, game_data>>

TalentPhaseIsUnlocked ==
  /\ call.op = "OperatorTalentPhase::is_unlocked"
  /\ ret = Pending
  /\ ret' = Answers(OperatorTalentPhase_is_unlocked(call.self, call.p, call.a),
                    OperatorTalentPhase_is_unlocked(call.self, call.q, call.b))
  /\ UNCHANGED <<operator, text, blackboard, assertions, call, data_files, game_data>>

ModuleIsUnlockable ==
  /\ call.op = "OperatorModule::is_unlockable"
  /\ ret = Pending
  /\ ret' = Answers(OperatorModule_is_unlockable(call.self, call.p, call.a),
                    OperatorModule_is_unlockable(call.self, call.q, call.b))
  /\ UNCHANGED <<operator, text, blackboard, assertions, call, data_files, game_data>>

BaseSkillPhaseIsUnlocked ==
  /\ call.op = "OperatorBaseSkillPhase::is_unlocked"
  /\ ret = Pending
  /\ ret' = Answers(OperatorBaseSkillPhase_is_unlocked(call.self, call.p),
                    OperatorBaseSkillPhase_is_unlocked(call.self, call.q))
  /\ UNCHANGED <<operator, text, blackboard, assertions, call, data_files, game_data>>

FileEntryIsUnlocked ==
  /\ call.op = "OperatorFileEntry::is_unlocked"
  /\ ret = Pending
  /\ ret' = Answers(OperatorFileEntry_is_unlocked(call.self, call.p, call.a),
                    OperatorFileEntry_is_unlocked(call.self, call.q, call.b))
  /\ UNCHANGED <<operator, text, blackboard, assertions, call, data_files, game_data>>

InitUnlock ==
  /\ operator = IdleOperator
  /\ text = IdleText
  /\ blackboard = IdleBlackboard
  /\ assertions = FALSE
  /\ \E op \in UnlockPredicates :
       call \in { [op |-> op, self |-> self, p |-> p, q |-> q, a |-> a, b |-> b] :
                    self \in UnlockObjects(op), p \in UnlockStates, q \in UnlockStates,
                    a \in Amounts, b \in Amounts }
  /\ ret = Pending
  /\ data_files = IdleDataFiles
  /\ game_data = IdleGameData

NextUnlock ==
  \/ SkillIsUnlocked
  \/ MasteryIsUnlockable
  \/ TalentPhaseIsUnlocked
  \/ ModuleIsUnlockable
  \/ BaseSkillPhaseIsUnlocked
  \/ FileEntryIsUnlocked

SpecUnlock == InitUnlock /\ [][NextUnlock]_vars

Answered == call.op \in UnlockPredicates /\ IsSome(ret)

\* C30: for states p <= q of the PromotionAndLevel order and potential or
\* trust values a <= b, whatever a skill, a mastery, a talent phase, a
\* module, a base skill phase or a file entry answers at (p, a) to be
\* unlocked, it answers at (q, b) too; a file entry that waits for another
\* operator answers no at every state.
C30_UnlockMonotone ==
  Answered =>
    /\ (PromotionAndLevelLe(call.p, call.q) /\ call.a <= call.b /\ Unwrap(ret).first)
         => Unwrap(ret).second
    /\ (call.op = "OperatorFileEntry::is_unlocked"
        /\ call.self.unlock_condition.variant = "OperatorUnlocked")
         => ~Unwrap(ret).first /\ ~Unwrap(ret).second

\* A talent phase locked below its condition at the first state was asked
\* again with more potential than it needs at a higher state, and a lower
\* tier with a higher level stood below a higher tier.
C30_Witness ==
  /\ Answered
  /\ call.op = "OperatorTalentPhase::is_unlocked"
  /\ PromotionAndLevelLt(call.p, call.q) /\ call.p.level > call.q.level
  /\ call.a < call.b
  /\ call.self.required_potential = call.a
  /\ call.self.condition = call.p
  /\ Unwrap(ret).first /\ Unwrap(ret).second

(***************************************************************************)
(* format.rs, options.rs, game_data.rs: getting the data files.            *)
(***************************************************************************)

\* Result
Ok(value) == [ok |-> TRUE, value |-> value]

Err(error) == [ok |-> FALSE, error |-> error]

\* The data files in the order of DataFilesTuple.
DataFilesTuple ==
  <<"character_table", "character_meta_table", "skill_table", "building_data",
    "item_table", "handbook_info_table", "equip_table">>

DataFileNames == { DataFilesTuple[i] : i \in DOMAIN DataFilesTuple }

\* The data files whose update time get_update_info asks for, in its order.
UpdateInfoEntries == <<"character_table", "character_meta_table", "building_data", "item_table">>

\* get_data_file_local: the file of the directory is opened and parsed.
get_data_file_local(gamedata_dir, name) ==
  IF gamedata_dir[name] THEN Ok(name) ELSE Err("IoError")

\* get_data_file_remote: the file of the repository is requested and parsed.
get_data_file_remote(options, name) ==
  IF options.files[name] THEN Ok(name) ELSE Err("OctocrabError")

\* get_data_file_info_entry: the time of the last commit to the file.
get_data_file_info_entry(options, name) ==
  IF options.info[name] THEN Ok(options.time) ELSE Err("CannotFindUpdateTime")

\* The futures that are ready with an error.
Failed(futures) == { name \in DOMAIN futures : IsSome(futures[name]) /\ ~Unwrap(futures[name]).ok }

\* A join that waits for every future and makes do with those that are Ok.
try_join_skipping_errors(futures) ==
  IF \A name \in DOMAIN futures : IsSome(futures[name])
  THEN { Ok([name \in DOMAIN futures \ Failed(futures) |-> Unwrap(futures[name]).value]) }
  ELSE {}

\* tokio::try_join! polled over futures of which some are ready: the error
\* of a future that is ready with one, else the values when all are ready,
\* else nothing yet.  Several errors: the one that the poll comes to first.
try_join(futures) ==
  IF Failed(futures) # {}
  THEN { Unwrap(futures[name]) : name \in Failed(futures) }
  ELSE IF \A name \in DOMAIN futures : IsSome(futures[name])
       THEN { Ok([name \in DOMAIN futures |-> Unwrap(futures[name]).value]) }
       ELSE {}

\* DataFiles::into_game_data as far as the load goes: the GameData of these
\* data files and this update time.
GameDataOf(files, last_updated) == [last_updated |-> last_updated, files |-> files]

\* A GameData that takes a time equal to its own for a newer one.
is_outdated_or_equal(self, new_date_time) ==
  IF IsSome(self.last_updated) THEN Unwrap(self.last_updated) <= new_date_time ELSE TRUE

\* GameData::is_outdated
is_outdated(self, new_date_time) ==
  IF IsSome(self.last_updated) THEN Unwrap(self.last_updated) < new_date_time ELSE TRUE

\* No future has been polled to its end yet.
NotStarted == [tables      |-> [name \in DataFileNames |-> None],
               fetched     |-> 0,
               update_info |-> None]

\* A blocking task of get_data_file_local comes to its end; the tasks go on
\* when from_local has returned.
GetDataFileLocal ==
  /\ call.op = "from_local"
  /\ \E name \in DataFileNames :
       /\ data_files.tables[name] = None
       /\ data_files' = [data_files EXCEPT
                           !.tables[name] = Some(get_data_file_local(call.gamedata_dir, name))]
  /\ UNCHANGED <<operator, text, blackboard, assertions, call, ret, game_data>>

\* GameData::from_local: the join of DataFiles::from_local is polled, and
\* with its outcome the function returns.
FromLocal ==
  /\ call.op = "from_local"
  /\ ret = Pending
  /\ \E joined \in try_join(data_files.tables) :
       IF joined.ok
       THEN /\ game_data' = Some(GameDataOf(joined.value, None))
            /\ ret' = Some(Ok(game_data'))
       ELSE /\ ret' = Some(joined)
            /\ UNCHANGED game_data
  /\ UNCHANGED <<operator, text, blackboard, assertions, call, data_files>>

\* from_remote has been called: at once by request_game_data, and by
\* patch_game_data when the update time is there and newer.
RemoteStarted ==
  \/ call.op = "request_game_data"
  \/ /\ call.op = "patch_game_data"
     /\ IsSome(data_files.update_info)
     /\ Unwrap(data_files.update_info).ok
     /\ is_outdated(Unwrap(game_data), Unwrap(data_files.update_info).value)

\* A future of get_data_file_remote comes to its end; the futures are
\* dropped when the call has returned.
GetDataFileRemote ==
  /\ RemoteStarted
  /\ ret = Pending
  /\ \E name \in DataFileNames :
       /\ data_files.tables[name] = None
       /\ data_files' = [data_files EXCEPT
                           !.tables[name] = Some(get_data_file_remote(call.options, name))]
  /\ UNCHANGED <<operator, text, blackboard, assertions, call, ret, game_data>>

\* The outcome of get_update_info once the next entry has this outcome.
UpdateInfoAfter(fetched, entry) ==
  IF ~entry.ok THEN Some(entry)
  ELSE IF fetched = Len(UpdateInfoEntries) THEN Some(Ok(entry.value))
  ELSE None

\* get_update_info: the next entry is awaited; an error ends the function.
GetUpdateInfo ==
  /\ call.op \in {"request_game_data", "patch_game_data"}
  /\ ret = Pending
  /\ data_files.update_info = None
  /\ \E entry \in { get_data_file_info_entry(call.options, UpdateInfoEntries[data_files.fetched + 1]) } :
       data_files' = [data_files EXCEPT
                        !.fetched = @ + 1,
                        !.update_info = UpdateInfoAfter(data_files.fetched + 1, entry)]
  /\ UNCHANGED <<operator, text, blackboard, assertions, call, ret, game_data>>

\* Poll::Pending, or Poll::Ready with one of the outcomes.
poll(outcomes) == IF outcomes = {} THEN {None} ELSE { Some(outcome) : outcome \in outcomes }

\* The two futures that request_game_data joins.
RequestFutures(from_remote, update_info) ==
  [name \in {"data_files", "update_info"} |->
     IF name = "update_info" THEN update_info ELSE from_remote]

\* Options::request_game_data
RequestGameData ==
  /\ call.op = "request_game_data"
  /\ ret = Pending
  /\ \E from_remote \in poll(try_join(data_files.tables)) :
     \E joined \in try_join(RequestFutures(from_remote, data_files.update_info)) :
       IF joined.ok
       THEN /\ game_data' = Some(GameDataOf(joined.value.data_files, Some(joined.value.update_info)))
            /\ ret' = Some(Ok(game_data'))
       ELSE /\ ret' = Some(joined)
            /\ UNCHANGED game_data
  /\ UNCHANGED <<operator, text, blackboard, assertions, call, data_files>>

\* Options::patch_game_data, to its return: the update time is there and
\* decides; when it asks for the files, their join is polled.
PatchGameData ==
  /\ call.op = "patch_game_data"
  /\ ret = Pending
  /\ IsSome(data_files.update_info)
  /\ \E update_info \in { Unwrap(data_files.update_info) } :
       IF ~update_info.ok
       THEN ret' = Some(update_info) /\ UNCHANGED game_data
       ELSE IF ~is_outdated(Unwrap(game_data), update_info.value)
            THEN ret' = Some(Ok(None)) /\ UNCHANGED game_data
            ELSE \E joined \in try_join(data_files.tables) :
                   IF joined.ok
                   THEN /\ game_data' = Some(GameDataOf(joined.value, Some(update_info.value)))
                        /\ ret' = Some(Ok(game_data))
                   ELSE /\ ret' = Some(joined)
                        /\ UNCHANGED game_data
  /\ UNCHANGED <<operator, text, blackboard, assertions, call, data_files>>

(***************************************************************************)
(* SpecLoad: from_local on a directory and request_game_data on a          *)
(* repository, each data file of which is there or not.                    *)
(***************************************************************************)

UpdateInfoNames == { UpdateInfoEntries[i] : i \in DOMAIN UpdateInfoEntries }

Repositories(files, times) ==
  { [files |-> f, info |-> i, time |-> t] :
      f \in files, i \in [UpdateInfoNames -> BOOLEAN], t \in times }

InitLoad ==
  /\ operator = IdleOperator
  /\ text = IdleText
  /\ blackboard = IdleBlackboard
  /\ assertions = FALSE
  /\ call \in { [op |-> "from_local", gamedata_dir |-> d] : d \in [DataFileNames -> BOOLEAN] }
              \cup { [op |-> "request_game_data", options |-> o] :
                       o \in Repositories([DataFileNames -> BOOLEAN], {0}) }
  /\ ret = Pending
  /\ data_files = NotStarted
  /\ game_data = None

NextLoad ==
  \/ GetDataFileLocal
  \/ FromLocal
  \/ GetDataFileRemote
  \/ GetUpdateInfo
  \/ RequestGameData

SpecLoad == InitLoad /\ [][NextLoad]_vars

\* Whether the load of a data file succeeds.
Loads(name) ==
  IF call.op = "from_local" THEN call.gamedata_dir[name] ELSE call.options.files[name]

\* C22: in every interleaving of the loads of the data files, a GameData is
\* there only when the load of every data file has succeeded, and then it
\* is the one returned and is made of all of them; a call that has
\* returned when the load of a data file fails has returned an error and
\* has made no GameData; from_local succeeds when every load does.
C22_AllOrNothing ==
  /\ IsSome(game_data)
       => /\ \A name \in DataFileNames : Loads(name)
          /\ ret = Some(Ok(game_data))
          /\ DOMAIN Unwrap(game_data).files = DataFileNames
  /\ IsSome(ret)
       => /\ (\E name \in DataFileNames : ~Loads(name)) => ~Unwrap(ret).ok
          /\ ~Unwrap(ret).ok => game_data = None
          /\ Unwrap(ret).ok => IsSome(game_data)
          /\ (call.op = "from_local" /\ \A name \in DataFileNames : Loads(name)) => Unwrap(ret).ok

\* from_local has returned an error while one load had succeeded and
\* another was still under way.
C22_Witness ==
  /\ call.op = "from_local"
  /\ IsSome(ret) /\ ~Unwrap(ret).ok
  /\ game_data = None
  /\ \E name \in DataFileNames : IsSome(data_files.tables[name]) /\ Unwrap(data_files.tables[name]).ok
  /\ \E name \in DataFileNames : data_files.tables[name] = None

\* request_game_data has made a GameData of all the data files.
RequestSucceeds ==
  /\ call.op = "request_game_data"
  /\ IsSome(ret) /\ Unwrap(ret).ok
  /\ Unwrap(game_data).last_updated = Some(call.options.time)

(***************************************************************************)
(* SpecPatch: patch_game_data on a GameData that carries an update time or *)
(* none, against a repository each data file of which is there or not.     *)
(***************************************************************************)

MaxUpdateTime == 2

UpdateTimes == 0..MaxUpdateTime

\* The GameData that the caller holds.
CarriedGameData ==
  { GameDataOf([name \in DataFileNames |-> "carried"], last_updated) :
      last_updated \in {None} \cup { Some(t) : t \in UpdateTimes } }

InitPatch ==
  /\ operator = IdleOperator
  /\ text = IdleText
  /\ blackboard = IdleBlackboard
  /\ assertions = FALSE
  /\ call \in { [op |-> "patch_game_data", options |-> o, game_data |-> g] :
                  o \in Repositories([DataFileNames -> BOOLEAN], UpdateTimes), g \in CarriedGameData }
  /\ ret = Pending
  /\ data_files = NotStarted
  /\ game_data = Some(call.game_data)

NextPatch ==
  \/ GetUpdateInfo
  \/ GetDataFileRemote
  \/ PatchGameData

SpecPatch == InitPatch /\ [][NextPatch]_vars

\* The update time can be fetched, and the data files.
UpdateTimeThere == \A name \in UpdateInfoNames : call.options.info[name]

DataFilesThere == \A name \in DataFileNames : call.options.files[name]

\* The remote update time is more recent than the one carried, or none is carried.
MoreRecent ==
  \/ call.game_data.last_updated = None
  \/ Unwrap(call.game_data.last_updated) < call.options.time

Unchanged == game_data = Some(call.game_data)

\* C23: patch_game_data leaves the GameData as it is until it returns; when
\* the update time cannot be fetched it returns an error and the GameData
\* is unchanged; when the update time is not more recent than the one
\* carried it returns None and the GameData is unchanged; when it is more
\* recent (or none is carried) and a data file cannot be fetched it returns
\* an error and the GameData is unchanged; otherwise the GameData is the
\* one made of the remote files with the remote update time, and the
\* previous value is returned.
C23_PatchWhenOutdated ==
  /\ ret = Pending => Unchanged
  /\ IsSome(ret) =>
       /\ ~UpdateTimeThere => ~Unwrap(ret).ok /\ Unchanged
       /\ (UpdateTimeThere /\ ~MoreRecent) => Unwrap(ret) = Ok(None) /\ Unchanged
       /\ (UpdateTimeThere /\ MoreRecent /\ ~DataFilesThere) => ~Unwrap(ret).ok /\ Unchanged
       /\ (UpdateTimeThere /\ MoreRecent /\ DataFilesThere)
            => /\ Unwrap(ret) = Ok(Some(call.game_data))
               /\ game_data = Some(GameDataOf([name \in DataFileNames |-> name],
                                              Some(call.options.time)))

\* A GameData that carried an older update time was replaced and returned.
C23_Witness ==
  /\ call.op = "patch_game_data"
  /\ IsSome(ret)
  /\ IsSome(call.game_data.last_updated)
  /\ Unwrap(ret) = Ok(Some(call.game_data))
  /\ ~Unchanged

\* A GameData that carries the remote update time is left as it is.
SameTimeUnchanged ==
  /\ call.op = "patch_game_data"
  /\ IsSome(ret)
  /\ call.game_data.last_updated = Some(call.options.time)
  /\ Unwrap(ret) = Ok(None)

(***************************************************************************)
(* gacha_table.rs, activity_table.rs, game_data.rs: banners and events.    *)
(***************************************************************************)

\* GachaTableGachaPool::into_headhunting_banner
into_headhunting_banner(self) ==
  [id |-> self.gacha_pool_id, open_time |-> self.open_time, close_time |-> self.end_time]

\* GachaTable::into_gacha: the banners are collected into a HashMap under
\* their IDs, a later pool taking the place of an earlier one of its ID.
into_gacha(self) ==
  LET pools == self.gacha_table_client
      ids == { pools[i].gacha_pool_id : i \in DOMAIN pools }
      last(id) == CHOOSE i \in DOMAIN pools :
                    /\ pools[i].gacha_pool_id = id
                    /\ \A j \in DOMAIN pools : pools[j].gacha_pool_id = id => j <= i
  IN [headhunting_banners |-> [id \in ids |-> into_headhunting_banner(pools[last(id)])]]

\* ActivityTableBasicInfoEntry::into_event
into_event(self) ==
  IF self.kind = None THEN None
  ELSE Some([id |-> self.id, event_type |-> Unwrap(self.kind), open_time |-> self.start_time,
             close_time |-> self.end_time, close_time_rewards |-> self.end_time_rewards])

\* The values of a map, and the lists that hold each of some items once.
Values(map) == { map[key] : key \in DOMAIN map }

Orders(items) ==
  { list \in [1..Cardinality(items) -> items] :
      \A i, j \in DOMAIN list : i # j => list[i] # list[j] }

\* ActivityTable::into_events: the events of the entries that have a kind,
\* in the order in which the HashMap hands out its entries.
into_events(self) ==
  Orders({ Unwrap(into_event(entry)) : entry \in { e \in Values(self.basic_info) : e.kind # None } })

IsSortedByOpenTime(list) ==
  \A i, j \in DOMAIN list : i < j => list[i].open_time <= list[j].open_time

\* The list of these banners or events as the GameData holds it: sorted
\* from oldest to newest.
sorted_by_open_time(items) == { list \in Orders(items) : IsSortedByOpenTime(list) }

Tense == {"Past", "Current", "Future"}

\* HeadhuntingBanner::is_past, is_current, is_future
HeadhuntingBanner_is_past(self, now) == now >= self.close_time

HeadhuntingBanner_is_current(self, now) == self.open_time <= now /\ now < self.close_time

HeadhuntingBanner_is_future(self, now) == self.open_time > now

\* An event that is past once its levels have closed.
Event_is_past_levels_closed(self, now) == now >= self.close_time

\* Event::is_past, is_current, is_future
Event_is_past(self, now) == now >= self.close_time_rewards

Event_is_current(self, now) == self.open_time <= now /\ now < self.close_time_rewards

Event_is_future(self, now) == self.open_time > now

\* Tense::into_banner_predicate, applied
into_banner_predicate(self, banner, now) ==
  CASE self = "Past"    -> HeadhuntingBanner_is_past(banner, now)
    [] self = "Current" -> HeadhuntingBanner_is_current(banner, now)
    [] self = "Future"  -> HeadhuntingBanner_is_future(banner, now)

\* Tense::into_event_predicate, applied
into_event_predicate(self, event, now) ==
  CASE self = "Past"    -> Event_is_past(event, now)
    [] self = "Current" -> Event_is_current(event, now)
    [] self = "Future"  -> Event_is_future(event, now)

\* Iterator::filter
Filter(list, Keep(_)) == SelectSeq(list, Keep)

\* An iter_banners that hands out the newest banner first.
iter_banners_newest_first(self, now, tense) ==
  LET found == Filter(self.headhunting_banners, LAMBDA banner : into_banner_predicate(tense, banner, now))
  IN [i \in DOMAIN found |-> found[Len(found) + 1 - i]]

\* GameData::iter_banners
iter_banners(self, now, tense) ==
  Filter(self.headhunting_banners, LAMBDA banner : into_banner_predicate(tense, banner, now))

\* GameData::iter_events
iter_events(self, now, tense) ==
  Filter(self.events, LAMBDA event : into_event_predicate(tense, event, now))

\* into_game_data, for the banners and the events: both lists are taken
\* from their tables and sorted.
IntoTimeline ==
  /\ call.op \in {"iter_banners", "iter_events"}
  /\ game_data = IdleGameData
  /\ \E headhunting_banners \in sorted_by_open_time(Values(into_gacha(data_files.gacha_table).headhunting_banners)) :
     \E events_ \in into_events(data_files.activity_table) :
     \E events \in sorted_by_open_time(Values(events_)) :
       game_data' = [headhunting_banners |-> headhunting_banners, events |-> events]
  /\ UNCHANGED <<operator, text, blackboard, assertions, call, ret, data_files>>

\* iter_banners of the GameData, collected, for each tense.
IterBanners ==
  /\ call.op = "iter_banners"
  /\ game_data # IdleGameData
  /\ ret = Pending
  /\ ret' = Some([tense \in Tense |-> iter_banners(game_data, call.now, tense)])
  /\ UNCHANGED <<operator, text, blackboard, assertions, call, data_files, game_data>>

\* iter_events of the GameData, collected, for each tense.
IterEvents ==
  /\ call.op = "iter_events"
  /\ game_data # IdleGameData
  /\ ret = Pending
  /\ ret' = Some([tense \in Tense |-> iter_events(game_data, call.now, tense)])
  /\ UNCHANGED <<operator, text, blackboard, assertions, call, data_files, game_data>>

(***************************************************************************)
(* SpecTimeline: a gacha table and an activity table whose records have    *)
(* their times drawn from a small range, and an instant to ask at.         *)
(***************************************************************************)

MaxTime == 2

MaxPools == 2

Times == 0..MaxTime

PoolIds == {"p1", "p2"}

ActivityIds == {"a1", "a2"}

GachaPools == { [gacha_pool_id |-> id, open_time |-> o, end_time |-> c] :
                  id \in PoolIds, o \in Times, c \in Times }

GachaTables == { [gacha_table_client |-> pools] :
                   pools \in UNION { [1..n -> GachaPools] : n \in 0..MaxPools } }

BasicInfoEntries(id) ==
  { [id |-> id, kind |-> k, start_time |-> o, end_time |-> c, end_time_rewards |-> rewards] :
      k \in {None, Some("SideStory")}, o \in Times, c \in Times, rewards \in Times }

ActivityTables ==
  { [basic_info |-> entries] :
      entries \in UNION { { info \in [ids -> UNION { BasicInfoEntries(id) : id \in ids }] :
                              \A id \in ids : info[id].id = id } : ids \in SUBSET ActivityIds } }

\* Tables of two records each, the newer record first.
NewestFirstGachaTable ==
  [gacha_table_client |-> << [gacha_pool_id |-> "p1", open_time |-> MaxTime, end_time |-> MaxTime],
                             [gacha_pool_id |-> "p2", open_time |-> 0, end_time |-> MaxTime] >>]

NewestFirstActivityTable ==
  [basic_info |-> [id \in ActivityIds |->
     [id |-> id, kind |-> Some("SideStory"), start_time |-> IF id = "a1" THEN MaxTime ELSE 0,
      end_time |-> MaxTime, end_time_rewards |-> MaxTime]]]

InitTimeline ==
  /\ operator = IdleOperator
  /\ text = IdleText
  /\ blackboard = IdleBlackboard
  /\ assertions = FALSE
  /\ \E now \in Times :
       \/ \E gacha_table \in GachaTables :
            /\ call = [op |-> "iter_banners", now |-> now]
            /\ data_files = [gacha_table |-> gacha_table, activity_table |-> NewestFirstActivityTable]
       \/ \E activity_table \in ActivityTables :
            /\ call = [op |-> "iter_events", now |-> now]
            /\ data_files = [gacha_table |-> NewestFirstGachaTable, activity_table |-> activity_table]
  /\ ret = Pending
  /\ game_data = IdleGameData

NextTimeline ==
  \/ IntoTimeline
  \/ IterBanners
  \/ IterEvents

SpecTimeline == InitTimeline /\ [][NextTimeline]_vars

Assembled == call.op \in {"iter_banners", "iter_events"} /\ game_data # IdleGameData

Iterated == Assembled /\ IsSome(ret)

TensesOf(item) == { tense \in Tense : item \in Values(Unwrap(ret)[tense]) }

\* C29: for an instant and a banner with open_time <= close_time, or an
\* event with open_time <= close_time_rewards, the banner or event is
\* handed out for exactly one of the tenses Past, Current and Future.
C29_TensesPartition ==
  Iterated =>
    /\ call.op = "iter_banners" =>
         \A banner \in Values(game_data.headhunting_banners) :
           banner.open_time <= banner.close_time => Cardinality(TensesOf(banner)) = 1
    /\ call.op = "iter_events" =>
         \A event \in Values(game_data.events) :
           event.open_time <= event.close_time_rewards => Cardinality(TensesOf(event)) = 1

\* An event whose levels have closed and whose shop is still open was
\* handed out as current, at the instant at which its levels closed.
C29_Witness ==
  /\ Iterated
  /\ call.op = "iter_events"
  /\ \E event \in Values(game_data.events) :
       /\ event.open_time < event.close_time
       /\ event.close_time < event.close_time_rewards
       /\ call.now = event.close_time
       /\ TensesOf(event) = {"Current"}

\* A banner that closes before it opens is handed out as past and as future.
ClosedBeforeOpenIsPastAndFuture ==
  /\ Iterated
  /\ call.op = "iter_banners"
  /\ \E banner \in Values(game_data.headhunting_banners) :
       banner.open_time > banner.close_time /\ TensesOf(banner) = {"Past", "Future"}

====
